---- MODULE Spec2Model ----
(***************************************************************************)
(* Verification model of the Lichtenstein server render pipeline           *)
(* (src/src/render/Pipeline.cpp): the render plan and its conflict         *)
(* resolution, the frame thread, the render worker pool and the            *)
(* start/stop/terminate lifecycle.                                         *)
(***************************************************************************)
EXTENDS Integers, Sequences, FiniteSets, TLC

(***************************************************************************)
(* Bounds of the model.                                                    *)
(***************************************************************************)
\* renderable objects that callers hand to add()
NumRenderables == 2
\* frames the frame thread may start
MaxFrames == 2
\* add/remove calls the command threads may issue while the pipeline runs
MaxCalls == 2
\* threads that call add/remove
NumCallers == 2
\* calls of start() that create an instance
MaxStarts == 2

\* longest time a frame body takes, in clock ticks
MaxElapsed == 5
\* longest time the OS sleep returns late, in clock ticks
MaxOvershoot == 1

\* requests the command server answers
MaxRequests == 2
\* connections the command server accepts
MaxClients == 2
\* checkpoints the background thread starts
MaxCheckpoints == 2

\* default of render.pipeline.threads
NumRenderThreads == 2

(***************************************************************************)
(* Targets.  A target is an object with identity; the plan is a std::map   *)
(* keyed by the target pointer and iterated in key order, here the index   *)
(* in the pool.  A container target carries a set of group ids that        *)
(* removeGroup() shrinks in place.                                         *)
(***************************************************************************)
TargetPool ==
    << [kind |-> "immutable", groups |-> {3, 4}],
       [kind |-> "mutable",   groups |-> {1, 2}],
       [kind |-> "immutable", groups |-> {2}],
       [kind |-> "immutable", groups |-> {3, 5}],
       [kind |-> "mutable",   groups |-> {2, 3}],
       [kind |-> "plain",     groups |-> {}] >>

NumTargets == Len(TargetPool)
Targets == 1..NumTargets
Renderables == 1..NumRenderables
Workers == 1..NumRenderThreads
Callers == 1..NumCallers

\* "no renderable": the target is not a key of the plan
NoR == 0
\* the end() iterator of the plan
EndIt == NumTargets + 1

\* Group::numPixels(): end - start + 1; every group of the model has one pixel
GroupPixels(g) == 1

RECURSIVE SumPixels(_)
SumPixels(gs) ==
    IF gs = {} THEN 0
    ELSE LET g == CHOOSE x \in gs : TRUE
         IN GroupPixels(g) + SumPixels(gs \ {g})

\* dynamic_pointer_cast<IGroupContainer>(t) succeeds
IsContainer(t) == TargetPool[t].kind # "plain"
\* IGroupContainer::isMutable()
IsMutable(t) == TargetPool[t].kind = "mutable"
\* IRenderTarget::numPixels() of target t whose groups are gs
NumPixels(t, gs) == IF IsContainer(t) THEN SumPixels(gs) ELSE 1
\* IGroupContainer::contains(other): the id sets intersect
Contains(gs, in) == gs \cap in # {}
\* IGroupContainer::getUnion(other, out): despite the name, the intersection
GetUnion(gs, in) == gs \cap in
\* IGroupContainer::numGroups()
NumGroups(gs) == Cardinality(gs)
\* IGroupContainer::operator==: equal sets of group ids
SameGroups(gs, in) == gs = in
\* IGroupContainer::removeGroup(id) for every id of the intersection
RemoveGroups(gs, ids) == gs \ ids

\* size of renderable r when its creator hands it over
InitSize(r) == IF r % 2 = 1 THEN 2 ELSE 1

VARIABLES
    \* ---- the plan and the objects it refers to
    pool,            \* target objects the callers of add/remove hold
    plan,            \* Pipeline::plan: target -> renderable (NoR: no entry)
    tgroups,         \* group ids of every target object
    rsize,           \* pixel buffer size of every renderable object
    last,            \* the last plan call: arguments, result, state before it
    first,           \* the first call of a pair of calls, recorded likewise
    \* ---- lifecycle
    sharedInstance,  \* Pipeline::sharedInstance is set
    shouldTerminate, \* Pipeline::shouldTerminate
    destroyed,       \* ~Pipeline() has returned
    crashed,         \* the process faulted
    spc,             \* the thread inside Pipeline::stop()
    starts,          \* instances start() has created
    oldRefs,         \* threads still inside a call on an instance stop() dropped
    \* ---- locks
    planLock,        \* owner of Pipeline::planLock
    rlock,           \* owner of every renderable's lock
    \* ---- command threads: where each is inside add(), its arguments, its
    \* iterator; the calls issued; the plan the calls give when each runs
    \* alone, in the order they took planLock
    callers, cpc, carg, cit, ncalls, serial,
    \* ---- frame thread
    fpc, currentPlan, fit, totalFrames, queue, pending, poolRunning,
    \* ---- render workers: the size of the pool (render.pipeline.threads as
    \* readConfig() caches it), where each pool thread is, its job
    numRenderThreads, wpc, wjob,
    \* ---- framebuffer
    fbOpen, fbToken, fbBack, fbFront, lastRead,
    \* ---- what happened during the frame in progress
    prepared, rendered, finished, jobFailed, everThrown,
    \* ---- pacer
    sleepInaccuracy,         \* Pipeline::sleepInaccuracy, a fraction num/den
    sleepInaccuracySamples,  \* Pipeline::sleepInaccuracySamples
    sleepCases,      \* what the clock and the OS sleep can do in a frame
    sleepErrors,     \* the differences handed to compensateSleep since startup
    lastSleep,       \* the last call of sleep() and the pacer before it
    \* ---- command server: request handlers
    routines,        \* the store's routines, by id
    mapperCalls,     \* the calls made on the output mapper, in order
    request,         \* the last request processed
    response,        \* the response written for it
    nreq,            \* requests processed
    \* ---- command server: the listening thread, stop() and the clients
    run,             \* CommandServer::run
    sock,            \* CommandServer::sock: "unset", "open" or "closed"
    tpc,             \* where the server thread is
    stpc,            \* where the thread inside CommandServer::stop() is
    sti,             \* the client stop() is at in its loop
    nclients,        \* CommandServer::clients.size()
    clpc,            \* where every client thread is
    clfd,            \* every client's socket
    \* ---- data store
    infoTable,       \* the rows of the info table: key -> value
    lastInfo,        \* the last getInfoValue call and what it gave
    checkpointThread, \* DataStore::checkpointThread: "none", "running", "deleted"
    checkpointLock,  \* owner of DataStore::checkpointLock
    cancelRequested, \* pthread_cancel was called on the checkpoint thread
    ckpc,            \* where the checkpoint thread is
    dpc,             \* where the thread that destroys the DataStore is
    ncheckpoints     \* checkpoints the background thread has started

planVars == <<pool, plan, tgroups, rsize, last, first>>
lifeVars == <<sharedInstance, shouldTerminate, destroyed, crashed, spc, starts,
              oldRefs>>
lockVars == <<planLock, rlock>>
cmdVars == <<callers, cpc, carg, cit, ncalls, serial>>
frameVars == <<fpc, currentPlan, fit, totalFrames, queue, pending, poolRunning>>
workerVars == <<numRenderThreads, wpc, wjob>>
fbVars == <<fbOpen, fbToken, fbBack, fbFront, lastRead>>
ghostVars == <<prepared, rendered, finished, jobFailed, everThrown>>
pacerVars == <<sleepInaccuracy, sleepInaccuracySamples, sleepCases, sleepErrors,
               lastSleep>>

pipelineVars == <<planVars, lifeVars, lockVars, cmdVars, frameVars, workerVars,
                  fbVars, ghostVars, pacerVars>>
handlerVars == <<routines, mapperCalls, request, response, nreq>>
serverVars == <<run, sock, tpc, stpc, sti, nclients, clpc, clfd>>
storeVars == <<infoTable, lastInfo, checkpointThread, checkpointLock,
               cancelRequested, ckpc, dpc, ncheckpoints>>
extVars == <<handlerVars, serverVars, storeVars>>

vars == <<planVars, lifeVars, lockVars, cmdVars, frameVars, workerVars,
          fbVars, ghostVars, pacerVars, extVars>>

(***************************************************************************)
(* The command server's request handlers.  A JSON object is a function     *)
(* from its keys; the store's lookups and the output mapper are            *)
(* collaborators, the mapper seen through the calls made on it.            *)
(***************************************************************************)
\* json j; : null, no key
EmptyJson == [k \in {} |-> ""]
\* j[k] = v
JsonSet(j, k, v) == [x \in DOMAIN j \cup {k} |-> IF x = k THEN v ELSE j[x]]
\* j.count(k)
JsonCount(j, k) == IF k \in DOMAIN j THEN 1 ELSE 0

\* the routines and groups the store holds
StoredRoutines ==
    [id \in {1} |-> [name |-> "name0", code |-> "code0", defaultParams |-> "map0"]]
StoredGroups == {1, 2}
\* DataStore::findGroupWithId(id) != nullptr
FindGroupWithId(id) == id \in StoredGroups
\* DataStore::findRoutineWithId(id) != nullptr
FindRoutineWithId(db, id) == id \in DOMAIN db

\* the first id of the list that findGroupWithId does not find; 0: all found
RECURSIVE FirstUnknownGroup(_)
FirstUnknownGroup(ids) ==
    IF ids = <<>> THEN 0
    ELSE IF ~FindGroupWithId(Head(ids)) THEN Head(ids)
    ELSE FirstUnknownGroup(Tail(ids))

\* the error response of a handler
ErrorResponse(resp, status, error, id) ==
    JsonSet(JsonSet(JsonSet(resp, "status", status), "error", error), "id", id)

\* clientRequestAddMapping that adds the mapping before it looks up the groups
ClientRequestAddMapping_AddFirst(resp, req, db, calls) ==
    LET routineId == req["routine"]["id"]
        ids == req["groups"]
        unknown == FirstUnknownGroup(ids)
        added == Append(calls, [op |-> "addMapping", groups |-> ids,
                                uber |-> Len(ids) # 1, routine |-> routineId,
                                params |-> JsonCount(req["routine"], "params") > 0])
    IN  IF ~FindRoutineWithId(db, routineId)
        THEN [response |-> ErrorResponse(resp, "kErrorInvalidRoutineId",
                               "Couldn't find routine with the specified ID", routineId),
              calls |-> calls]
        ELSE IF unknown # 0
        THEN [response |-> ErrorResponse(resp, "kErrorInvalidGroupId",
                               "Couldn't find group with the specified ID", unknown),
              calls |-> added]
        ELSE [response |-> JsonSet(resp, "status", "0"), calls |-> added]

(* CommandServer::clientRequestAddMapping: the routine, then every group, is
   looked up; then one addMapping call, with an OutputGroup for one group
   and an OutputUberGroup otherwise *)
ClientRequestAddMapping(resp, req, db, calls) ==
    LET routineId == req["routine"]["id"]
        hasParams == JsonCount(req["routine"], "params") > 0
        ids == req["groups"]
        unknown == FirstUnknownGroup(ids)
    IN  IF ~FindRoutineWithId(db, routineId)
        THEN [response |-> ErrorResponse(resp, "kErrorInvalidRoutineId",
                               "Couldn't find routine with the specified ID", routineId),
              calls |-> calls]
        ELSE IF unknown # 0
        THEN [response |-> ErrorResponse(resp, "kErrorInvalidGroupId",
                               "Couldn't find group with the specified ID", unknown),
              calls |-> calls]
        ELSE [response |-> JsonSet(resp, "status", "0"),
              calls |-> Append(calls, [op |-> "addMapping", groups |-> ids,
                                       uber |-> Len(ids) # 1, routine |-> routineId,
                                       params |-> hasParams])]

\* one removeMappingForGroup call for every group of the list, in order
RECURSIVE RemoveEach(_, _)
RemoveEach(calls, ids) ==
    IF ids = <<>> THEN calls
    ELSE RemoveEach(Append(calls, [op |-> "removeMappingForGroup",
                                   groups |-> <<Head(ids)>>, uber |-> FALSE,
                                   routine |-> 0, params |-> FALSE]),
                    Tail(ids))

\* the ids of the list before the first one findGroupWithId does not find
RECURSIVE KnownPrefix(_)
KnownPrefix(ids) ==
    IF ids = <<>> \/ ~FindGroupWithId(Head(ids)) THEN <<>>
    ELSE <<Head(ids)>> \o KnownPrefix(Tail(ids))

\* clientRequestRemoveMapping that removes each group as soon as it is found
ClientRequestRemoveMapping_Eager(resp, req, calls) ==
    LET ids == req["groups"]
        unknown == FirstUnknownGroup(ids)
    IN  IF unknown # 0
        THEN [response |-> ErrorResponse(resp, "kErrorInvalidGroupId",
                               "Couldn't find group with the specified ID", unknown),
              calls |-> RemoveEach(calls, KnownPrefix(ids))]
        ELSE [response |-> JsonSet(resp, "status", "0"),
              calls |-> RemoveEach(calls, ids)]

(* CommandServer::clientRequestRemoveMapping: every group is looked up, then
   removeMappingForGroup is called for each *)
ClientRequestRemoveMapping(resp, req, calls) ==
    LET ids == req["groups"]
        unknown == FirstUnknownGroup(ids)
    IN  IF unknown # 0
        THEN [response |-> ErrorResponse(resp, "kErrorInvalidGroupId",
                               "Couldn't find group with the specified ID", unknown),
              calls |-> calls]
        ELSE [response |-> JsonSet(resp, "status", "0"),
              calls |-> RemoveEach(calls, ids)]

(* CommandServer::clientRequestUpdateRoutine: the keys name and code are
   looked for in the request, the key defaults in the response; the routine
   is saved with store->update() *)
ClientRequestUpdateRoutine(resp, req, db) ==
    LET routineId == req["id"]
    IN  IF ~FindRoutineWithId(db, routineId)
        THEN [response |-> ErrorResponse(resp, "kErrorInvalidRoutineId",
                               "Couldn't find routine with the specified ID", routineId),
              routines |-> db]
        ELSE LET r0 == db[routineId]
                 r1 == IF JsonCount(req, "name") = 1
                       THEN [r0 EXCEPT !.name = req["name"]] ELSE r0
                 r2 == IF JsonCount(req, "code") = 1
                       THEN [r1 EXCEPT !.code = req["code"]] ELSE r1
                 r3 == IF JsonCount(resp, "defaults") = 1
                       THEN [r2 EXCEPT !.defaultParams = req["defaults"]] ELSE r2
             IN  [response |-> JsonSet(resp, "status", "0"),
                  routines |-> [db EXCEPT ![routineId] = r3]]

\* the requests a client sends: id 3 is in no table of the store
RoutineIds == {1, 3}
RequestGroupLists == {<<>>, <<1>>, <<3>>, <<1, 2>>, <<1, 3>>, <<3, 1>>, <<1, 1>>}
AddMappingRequests ==
    {[type |-> "kMessageAddMapping", routine |-> rt, groups |-> ids] :
        rt \in {[id |-> id] : id \in RoutineIds}
               \cup {[id |-> id, params |-> "map1"] : id \in RoutineIds},
        ids \in RequestGroupLists}
RemoveMappingRequests ==
    {[type |-> "kMessageRemoveMapping", groups |-> ids] : ids \in RequestGroupLists}
UpdateKeys == {"name", "code", "defaults"}
NewValue(k) ==
    CASE k = "name" -> "name1"
      [] k = "code" -> "code1"
      [] k = "defaults" -> "map1"
UpdateRoutineRequests ==
    {[k \in {"type", "id"} \cup ks |->
         IF k = "type" THEN "kMessageUpdateRoutine"
         ELSE IF k = "id" THEN id
         ELSE NewValue(k)] : id \in RoutineIds, ks \in SUBSET UpdateKeys}

\* the command server before its first request
InitHandlers ==
    /\ routines = StoredRoutines
    /\ mapperCalls = <<>>
    /\ request = EmptyJson
    /\ response = EmptyJson
    /\ nreq = 0

Clients == 1..MaxClients

(* CommandServer::CommandServer sets config, store, runner and socketPath;
   run and sock are left as they are declared *)
InitCommandServer ==
    /\ run = FALSE
    /\ sock = "unset"
    /\ tpc = "none"
    /\ stpc = "idle"
    /\ sti = 1
    /\ nclients = 0
    /\ clpc = [k \in Clients |-> "none"]
    /\ clfd = [k \in Clients |-> "none"]

\* keys of the info table that the code reads and writes
InfoKeys == {"schema_version", "server_version", "server_build"}
InfoValues == {"1", "2"}
\* no getInfoValue call yet
NoInfo == [key |-> "", found |-> FALSE, value |-> "", raised |-> FALSE]

(* DataStore::getInfoValue(key): SELECT value FROM info WHERE key = :key;
   the value of the row is returned if sqlStep gives SQLITE_ROW, and the
   empty returnValue otherwise.  found and raised record whether there was a
   row and whether the call ended in an error. *)
GetInfoValue(table, key) ==
    IF key \in DOMAIN table
    THEN [key |-> key, found |-> TRUE, value |-> table[key], raised |-> FALSE]
    ELSE [key |-> key, found |-> FALSE, value |-> "", raised |-> FALSE]

\* DataStore::setInfoValue(key, value): UPDATE info SET value WHERE key
SetInfoValue(table, key, value) ==
    IF key \in DOMAIN table THEN [table EXCEPT ![key] = value] ELSE table

\* the data store opened on a provisioned database, no checkpoint thread
InitDataStore ==
    /\ infoTable = [k \in {"schema_version"} |-> "1"]
    /\ lastInfo = NoInfo
    /\ checkpointThread = "none"
    /\ checkpointLock = "free"
    /\ cancelRequested = FALSE
    /\ ckpc = "none"
    /\ dpc = "alive"
    /\ ncheckpoints = 0

\* the collaborators of the pipeline as they are constructed
InitCollaborators ==
    /\ InitHandlers
    /\ InitCommandServer
    /\ InitDataStore

(***************************************************************************)
(* The plan as a std::map: keys, iteration, erase.                         *)
(***************************************************************************)
Keys(pl) == {t \in Targets : pl[t] # NoR}

\* plan.cbegin()
FirstKey(pl) ==
    IF Keys(pl) = {} THEN EndIt
    ELSE CHOOSE t \in Keys(pl) : \A u \in Keys(pl) : t <= u

\* ++it, and the iterator plan.erase(it) returns
NextKey(pl, it) ==
    LET after == {t \in Keys(pl) : t > it}
    IN IF after = {} THEN EndIt
       ELSE CHOOSE t \in after : \A u \in after : t <= u

\* Erase that leaves the entry in the map
Erase_Keep(pl, t) == pl

\* plan.erase(it), plan.erase(target)
Erase(pl, t) == [pl EXCEPT ![t] = NoR]

\* ConflictKind without the test for an identical set of groups
ConflictKind_NoIdentical(tg, it, T) ==
    IF ~IsContainer(it) THEN "next"
    ELSE IF ~Contains(tg[it], tg[T]) THEN "next"
    ELSE IF IsMutable(it) THEN "mutable"
    ELSE IF NumGroups(tg[it]) = 1 THEN "single"
    ELSE "throw"

\* ConflictKind with the mutable branch lost: the entry is left as it is
ConflictKind_MutableSkipped(tg, it, T) ==
    IF ~IsContainer(it) THEN "next"
    ELSE IF ~Contains(tg[it], tg[T]) THEN "next"
    ELSE IF SameGroups(tg[it], tg[T]) THEN "identical"
    ELSE IF IsMutable(it) THEN "next"
    ELSE IF NumGroups(tg[it]) = 1 THEN "single"
    ELSE "throw"

\* ConflictKind with the one-group branch lost: the entry is left as it is
ConflictKind_SingleKept(tg, it, T) ==
    IF ~IsContainer(it) THEN "next"
    ELSE IF ~Contains(tg[it], tg[T]) THEN "next"
    ELSE IF SameGroups(tg[it], tg[T]) THEN "identical"
    ELSE IF IsMutable(it) THEN "mutable"
    ELSE IF NumGroups(tg[it]) = 1 THEN "next"
    ELSE "throw"

\* what the loop body of add() decides for the entry at iterator it
ConflictKind(tg, it, T) ==
    IF ~IsContainer(it) THEN "next"
    ELSE IF ~Contains(tg[it], tg[T]) THEN "next"
    ELSE IF SameGroups(tg[it], tg[T]) THEN "identical"
    ELSE IF IsMutable(it) THEN "mutable"
    ELSE IF NumGroups(tg[it]) = 1 THEN "single"
    ELSE "throw"

\* ResizeTo that leaves the buffer as it is
ResizeTo_Kept(rs, r, n) == rs

\* the resize of the conflicting entry's renderable
ResizeTo(rs, r, n) == [rs EXCEPT ![r] = n]

(***************************************************************************)
(* Pipeline::add(renderable, target) run to completion on a plan nobody    *)
(* else touches: the scan from iterator it on, then the insert.            *)
(***************************************************************************)
RECURSIVE AddScan(_, _, _, _, _, _)
AddScan(pl, tg, rs, it, R, T) ==
    IF it = EndIt
    THEN [plan |-> [pl EXCEPT ![T] = R], tgroups |-> tg, rsize |-> rs,
          result |-> "ok"]
    ELSE LET kind == ConflictKind(tg, it, T)
             shrunk == [tg EXCEPT ![it] = RemoveGroups(tg[it], GetUnion(tg[it], tg[T]))]
         IN CASE kind = "next" ->
                   AddScan(pl, tg, rs, NextKey(pl, it), R, T)
              [] kind = "identical" ->
                   \* erase and goto beach: the scan ends here
                   [plan |-> [Erase(pl, it) EXCEPT ![T] = R], tgroups |-> tg,
                    rsize |-> rs, result |-> "ok"]
              [] kind = "mutable" ->
                   IF NumPixels(it, shrunk[it]) = 0
                   THEN AddScan(Erase(pl, it), shrunk, rs, NextKey(pl, it), R, T)
                   ELSE AddScan(pl, shrunk,
                                ResizeTo(rs, pl[it], NumPixels(it, shrunk[it])),
                                NextKey(pl, it), R, T)
              [] kind = "single" ->
                   AddScan(Erase(pl, it), tg, rs, NextKey(pl, it), R, T)
              [] OTHER ->
                   \* throw std::runtime_error: what was changed stays changed
                   [plan |-> pl, tgroups |-> tg, rsize |-> rs,
                    result |-> "conflict"]

\* AddOp that drops every other entry when the target is no container
AddOp_PlainAlone(pl, tg, rs, R, T) ==
    IF IsContainer(T)
    THEN AddScan(pl, tg, rs, FirstKey(pl), R, T)
    ELSE [plan |-> [t \in Targets |-> IF t = T THEN R ELSE NoR], tgroups |-> tg,
          rsize |-> rs, result |-> "ok"]

\* add(renderable, target) on a plan nobody else touches
AddOp(pl, tg, rs, R, T) ==
    IF IsContainer(T)
    THEN AddScan(pl, tg, rs, FirstKey(pl), R, T)
    ELSE [plan |-> [pl EXCEPT ![T] = R], tgroups |-> tg, rsize |-> rs,
          result |-> "ok"]

\* RemoveOp without the find: an absent target is erased without an error
RemoveOp_NoFind(pl, tg, rs, T) ==
    [plan |-> Erase(pl, T), tgroups |-> tg, rsize |-> rs, result |-> "ok"]

\* Pipeline::remove(target)
RemoveOp(pl, tg, rs, T) ==
    IF pl[T] = NoR
    THEN [plan |-> pl, tgroups |-> tg, rsize |-> rs, result |-> "notfound"]
    ELSE [plan |-> Erase(pl, T), tgroups |-> tg, rsize |-> rs, result |-> "ok"]

PlanState == [plan |-> plan, tgroups |-> tgroups, rsize |-> rsize]

\* an idle pool thread has no job
NoJob == [t |-> 0, r |-> NoR, frame |-> 0]

NoCall == [op |-> "none", r |-> NoR, t |-> 0, result |-> "none", term |-> FALSE]

(***************************************************************************)
(* The pacer: Pipeline::sleep() and Pipeline::compensateSleep().  Times    *)
(* are whole clock ticks; the bias is a double in the code and an exact    *)
(* fraction [num, den] with den > 0 here.                                  *)
(***************************************************************************)
\* fpsTimeNs = 1e9 / targetFps, the period of a frame
FpsTimeNs == 4

\* the conversion of a double to long: the fraction p/q cut towards zero
ToLong(p, q) == IF p >= 0 THEN p \div q ELSE -((-p) \div q)

\* sleep.tv_nsec = fpsTimeNs - differenceNanos; sleep.tv_nsec -= sleepInaccuracy
Requested(elapsed, bias) ==
    ToLong((FpsTimeNs - elapsed) * bias.den - bias.num, bias.den)

\* nanosleep() refuses a negative tv_nsec and returns at once
SleepFails(requested) == requested < 0

\* the time from before nanosleep() to after it: the time asked for when the
\* call sleeps, and what the call and the clock take on top
Measured(requested, over) ==
    IF SleepFails(requested) THEN over ELSE requested + over

\* CompensateSleep that keeps only the last difference
CompensateSleep_Last(oldAvg, n, requested, actual) ==
    [num |-> actual - requested, den |-> 1]

\* compensateSleep: newAvg = ((oldAvg * n) + difference) / (n + 1)
CompensateSleep(oldAvg, n, requested, actual) ==
    [num |-> oldAvg.num * n + (actual - requested) * oldAvg.den,
     den |-> oldAvg.den * (n + 1)]

\* the clock and the OS sleep of a frame: how long the body took, how late
\* the sleep returned
AllSleepCases == [elapsed : 0..MaxElapsed, over : 0..MaxOvershoot]
\* a frame body of one tick and a sleep that returns on time
OnTime == [elapsed |-> 1, over |-> 0]

NoSleep == [done |-> FALSE, requested |-> 0, called |-> FALSE, failed |-> FALSE,
            bias |-> [num |-> 0, den |-> 1], samples |-> 0]

(***************************************************************************)
(* The state after Pipeline::start(): the instance is constructed, the     *)
(* frame thread is created and has not run yet, the plan is empty.         *)
(***************************************************************************)
InitObjects ==
    /\ plan = [t \in Targets |-> NoR]
    /\ tgroups = [t \in Targets |-> TargetPool[t].groups]
    /\ rsize = [r \in Renderables |-> InitSize(r)]
    /\ last = [call |-> NoCall,
               before |-> [plan |-> plan, tgroups |-> tgroups, rsize |-> rsize]]
    /\ first = last

InitPipeline ==
    /\ sharedInstance = TRUE
    /\ shouldTerminate = FALSE
    /\ destroyed = FALSE
    /\ crashed = FALSE
    /\ spc = "idle"
    /\ starts = 1
    /\ oldRefs = {}
    /\ planLock = "free"
    /\ rlock = [r \in Renderables |-> 0]
    /\ cpc = [c \in Callers |-> "idle"]
    /\ carg = [c \in Callers |-> NoCall]
    /\ cit = [c \in Callers |-> EndIt]
    /\ ncalls = 0
    /\ serial = PlanState
    /\ fpc = "init"
    /\ currentPlan = [t \in Targets |-> NoR]
    /\ fit = EndIt
    /\ totalFrames = 0
    /\ queue = <<>>
    /\ pending = {}
    /\ poolRunning = FALSE
    /\ wpc = [w \in Workers |-> "idle"]
    /\ wjob = [w \in Workers |-> NoJob]
    /\ fbOpen = FALSE
    /\ fbToken = 0
    /\ fbBack = {}
    /\ fbFront = [gen |-> 0, pixels |-> {}]
    /\ lastRead = [gen |-> 0, pixels |-> {}]
    /\ prepared = {}
    /\ rendered = {}
    /\ finished = {}
    /\ jobFailed = FALSE
    /\ everThrown = FALSE
    /\ sleepInaccuracy = [num |-> 0, den |-> 1]
    /\ sleepInaccuracySamples = 0
    /\ sleepErrors = <<>>
    /\ lastSleep = NoSleep

(***************************************************************************)
(* SpecPlan: the plan API called from one thread while no frame is         *)
(* rendered; every call runs to completion.                                *)
(***************************************************************************)
InitPlan ==
    /\ pool = Targets
    /\ callers = {1}
    /\ InitObjects
    /\ InitPipeline
    /\ numRenderThreads = NumRenderThreads
    /\ sleepCases = {OnTime}
    /\ InitCollaborators

\* the caller hands add() a renderable sized for the target
Fits(r, t) == rsize[r] = NumPixels(t, tgroups[t])

\* the argument checks of add() and remove(): a null pointer is refused
NullTarget(t) == t = 0

\* NullArgument refusing every call once termination was requested
NullArgument_OrTerminating(r, t) == r = NoR \/ NullTarget(t) \/ shouldTerminate

NullArgument(r, t) == r = NoR \/ NullTarget(t)

Called(op, r, t, res) ==
    [call |-> [op |-> op, r |-> r, t |-> t, result |-> res,
               term |-> shouldTerminate],
     before |-> PlanState]

PlanAdd(r, t) ==
    /\ IF NullArgument(r, t)
       THEN /\ last' = Called("add", r, t, "invalid")
            /\ UNCHANGED <<plan, tgroups, rsize>>
       ELSE /\ Fits(r, t)
            /\ \E res \in {AddOp(plan, tgroups, rsize, r, t)} :
                  /\ plan' = res.plan
                  /\ tgroups' = res.tgroups
                  /\ rsize' = res.rsize
                  /\ last' = Called("add", r, t, res.result)
    /\ UNCHANGED <<extVars, pacerVars, pool, first, lifeVars, lockVars, cmdVars, frameVars, workerVars,
                   fbVars, ghostVars>>

PlanRemove(t) ==
    /\ IF NullTarget(t)
       THEN /\ last' = Called("remove", NoR, t, "invalid")
            /\ UNCHANGED plan
       ELSE LET res == RemoveOp(plan, tgroups, rsize, t)
            IN /\ plan' = res.plan
               /\ last' = Called("remove", NoR, t, res.result)
    /\ UNCHANGED <<extVars, pacerVars, pool, first, tgroups, rsize, lifeVars, lockVars, cmdVars, frameVars,
                   workerVars, fbVars, ghostVars>>

\* group lists callers hand to add(renderable, groups)
GroupLists == {{}, {2, 3}}
\* MultiGroupTarget(groups): a container that owns the groups of the list
MultiGroupTarget(gs) == gs
\* the object make_shared<MultiGroupTarget>(g) creates: a mutable container
\* that is no key of the plan
MadeTarget == 5

\* add(renderable, groups): t = make_shared<MultiGroupTarget>(g); add(renderable, t)
AddGroupsOp(pl, tg, rs, R, gs) ==
    AddOp(pl, [tg EXCEPT ![MadeTarget] = MultiGroupTarget(gs)], rs, R, MadeTarget)

PlanAddGroups(r, gs) ==
    /\ plan[MadeTarget] = NoR
    /\ IF NullArgument(r, MadeTarget)
       THEN /\ last' = Called("addGroups", r, MadeTarget, "invalid")
            /\ UNCHANGED <<plan, tgroups, rsize>>
       ELSE /\ gs = {} \/ rsize[r] = SumPixels(gs)
            /\ LET res == AddGroupsOp(plan, tgroups, rsize, r, gs)
               IN /\ plan' = res.plan
                  /\ tgroups' = res.tgroups
                  /\ rsize' = res.rsize
                  /\ last' = Called("addGroups", r, MadeTarget, res.result)
    /\ UNCHANGED <<extVars, pacerVars, pool, first, lifeVars, lockVars, cmdVars, frameVars,
                   workerVars, fbVars, ghostVars>>

\* Pipeline::terminate(): a repeated call is logged and ignored
TerminateFlag(flag) == IF flag THEN flag ELSE TRUE

\* terminate() while the plan API is in use
PlanTerminate ==
    /\ shouldTerminate' = TerminateFlag(shouldTerminate)
    /\ UNCHANGED <<extVars, pacerVars, planVars, starts, oldRefs, sharedInstance, destroyed, crashed, spc,
                   lockVars, cmdVars, frameVars, workerVars, fbVars, ghostVars>>

\* the calls of add() with a null pointer: no renderable, no target, neither
NullCalls == {<<NoR, 2>>, <<1, 0>>, <<NoR, 0>>}

NextPlan ==
    \/ \E r \in Renderables, t \in pool : PlanAdd(r, t)
    \/ \E a \in NullCalls : PlanAdd(a[1], a[2])
    \/ \E t \in pool \cup {0} : PlanRemove(t)
    \/ PlanTerminate

SpecPlan == InitPlan /\ [][NextPlan]_vars

\* SpecGroups: the plan API with the overload that builds the target itself
NextGroups ==
    \/ \E r \in Renderables, t \in pool : PlanAdd(r, t)
    \/ \E a \in NullCalls : PlanAdd(a[1], a[2])
    \/ \E t \in pool \cup {0} : PlanRemove(t)
    \/ \E r \in Renderables \cup {NoR}, gs \in GroupLists : PlanAddGroups(r, gs)

SpecGroups == InitPlan /\ [][NextGroups]_vars

(***************************************************************************)
(* SpecPairs: two calls in a row on the same target, from any plan the API *)
(* can build: add(r, t) and then either add(r, t) again or remove(t).      *)
(***************************************************************************)
NoPair == first.call.op = "none"
FirstOnly == first.call.op = "add" /\ last.call.op = "none"

\* calls that build the plan the pair starts from
BuildAdd(r, t) ==
    /\ NoPair
    /\ Fits(r, t)
    /\ LET res == AddOp(plan, tgroups, rsize, r, t)
       IN /\ plan' = res.plan
          /\ tgroups' = res.tgroups
          /\ rsize' = res.rsize
    /\ UNCHANGED <<extVars, pacerVars, pool, first, last, lifeVars, lockVars, cmdVars, frameVars,
                   workerVars, fbVars, ghostVars>>

BuildRemove(t) ==
    /\ NoPair
    /\ plan' = RemoveOp(plan, tgroups, rsize, t).plan
    /\ UNCHANGED <<extVars, pacerVars, pool, first, tgroups, rsize, last, lifeVars, lockVars, cmdVars,
                   frameVars, workerVars, fbVars, ghostVars>>

\* the first call of the pair: add(r, t)
PairAdd(r, t) ==
    /\ NoPair
    /\ Fits(r, t)
    /\ LET res == AddOp(plan, tgroups, rsize, r, t)
       IN /\ plan' = res.plan
          /\ tgroups' = res.tgroups
          /\ rsize' = res.rsize
          /\ first' = Called("add", r, t, res.result)
    /\ UNCHANGED <<extVars, pacerVars, pool, last, lifeVars, lockVars, cmdVars, frameVars,
                   workerVars, fbVars, ghostVars>>

\* the second call: add(r, t) with the same renderable and target
PairAddAgain ==
    /\ FirstOnly
    /\ LET res == AddOp(plan, tgroups, rsize, first.call.r, first.call.t)
       IN /\ plan' = res.plan
          /\ tgroups' = res.tgroups
          /\ rsize' = res.rsize
          /\ last' = Called("add", first.call.r, first.call.t, res.result)
    /\ UNCHANGED <<extVars, pacerVars, pool, first, lifeVars, lockVars, cmdVars, frameVars,
                   workerVars, fbVars, ghostVars>>

\* the second call: remove(t)
PairRemove ==
    /\ FirstOnly
    /\ LET res == RemoveOp(plan, tgroups, rsize, first.call.t)
       IN /\ plan' = res.plan
          /\ last' = Called("remove", NoR, first.call.t, res.result)
    /\ UNCHANGED <<extVars, pacerVars, pool, first, tgroups, rsize, lifeVars, lockVars, cmdVars,
                   frameVars, workerVars, fbVars, ghostVars>>

NextPairs ==
    \/ \E r \in Renderables, t \in pool : BuildAdd(r, t)
    \/ \E t \in pool : BuildRemove(t)
    \/ \E r \in Renderables, t \in pool : PairAdd(r, t)
    \/ PairAddAgain
    \/ PairRemove

SpecPairs == InitPlan /\ [][NextPairs]_vars

(***************************************************************************)
(* Spec: the running pipeline.  A frame thread (workerEntry), the render   *)
(* workers of the pool (renderOne), a command thread calling add/remove,   *)
(* a thread calling terminate/stop, and a reader of the framebuffer.       *)
(***************************************************************************)
\* targets the command thread of Spec holds
SpecTargets == {2, 3}

Init ==
    /\ pool = SpecTargets
    /\ callers = {1}
    /\ InitObjects
    /\ InitPipeline
    /\ numRenderThreads = NumRenderThreads
    /\ sleepCases = {OnTime}
    /\ InitCollaborators

\* ---------------------------------------------------------- lifecycle
Terminate ==
    /\ ~crashed
    /\ sharedInstance
    /\ shouldTerminate' = TerminateFlag(shouldTerminate)
    /\ UNCHANGED <<extVars, pacerVars, planVars, starts, oldRefs, sharedInstance, destroyed, crashed, spc,
                   lockVars, cmdVars, frameVars, workerVars, fbVars, ghostVars>>

\* a thread inside add() or remove() holds a reference to the instance
OtherReference == \E c \in Callers : cpc[c] # "idle"

(* Pipeline::stop(): sharedInstance->terminate(); sharedInstance = nullptr.
   Dropping the last reference runs ~Pipeline(), which joins the frame
   thread.  With sharedInstance already null the first statement calls a
   member function through a null pointer: the process faults or the call
   does nothing. *)
Stop ==
    /\ ~crashed
    /\ spc = "idle"
    /\ IF sharedInstance
       THEN /\ shouldTerminate' = TerminateFlag(shouldTerminate)
            /\ sharedInstance' = FALSE
            /\ spc' = IF OtherReference THEN "idle" ELSE "join"
            /\ UNCHANGED crashed
       ELSE /\ crashed' \in BOOLEAN
            /\ UNCHANGED <<shouldTerminate, sharedInstance, spc>>
    /\ UNCHANGED <<extVars, pacerVars, planVars, starts, oldRefs, destroyed, lockVars, cmdVars, frameVars,
                   workerVars, fbVars, ghostVars>>

\* ~Pipeline() on the stopping thread: worker->join() returns
StopJoin ==
    /\ ~crashed
    /\ spc = "join"
    /\ fpc = "exited"
    /\ spc' = "idle"
    /\ destroyed' = TRUE
    /\ UNCHANGED <<extVars, pacerVars, planVars, starts, oldRefs, sharedInstance, shouldTerminate, crashed,
                   lockVars, cmdVars, frameVars, workerVars, fbVars, ghostVars>>

\* PlanLockFree of a lock that excludes nobody
PlanLockFree_Always == TRUE

\* std::lock_guard<std::mutex> lg(this->planLock) can take the lock
PlanLockFree == planLock = "free"

\* ----------------------------------------------------- command threads
\* where a call goes when it returns: the caller drops its reference, and the
\* last reference dropped runs ~Pipeline()
AfterCall(c) ==
    IF sharedInstance \/ (\E d \in Callers \ {c} : cpc[d] # "idle")
    THEN "idle" ELSE "join"

\* the plan, the targets and the renderables a call leaves when it runs alone
StateOf(res) == [plan |-> res.plan, tgroups |-> res.tgroups, rsize |-> res.rsize]

\* add(renderable, target) up to the first entry of the scan
CmdAdd(c, r, t) ==
    /\ ~crashed
    /\ sharedInstance
    /\ cpc[c] = "idle"
    /\ ncalls < MaxCalls
    /\ ncalls' = ncalls + 1
    /\ ~NullArgument(r, t)
    /\ Fits(r, t)
    /\ PlanLockFree
    /\ serial' = StateOf(AddOp(plan, tgroups, rsize, r, t))
    /\ IF IsContainer(t)
       THEN /\ planLock' = "cmd"
            /\ cpc' = [cpc EXCEPT ![c] = "scan"]
            /\ carg' = [carg EXCEPT ![c] =
                          [op |-> "add", r |-> r, t |-> t, result |-> "running",
                           term |-> shouldTerminate]]
            /\ cit' = [cit EXCEPT ![c] = FirstKey(plan)]
            /\ UNCHANGED plan
       ELSE /\ plan' = [plan EXCEPT ![t] = r]
            /\ UNCHANGED <<planLock, cpc, carg, cit>>
    /\ UNCHANGED <<extVars, pacerVars, pool, first, tgroups, rsize, last, lifeVars, rlock, callers,
                   frameVars, workerVars, fbVars, ghostVars>>

\* the call returns: the lock_guard releases planLock
CmdReturn(c) ==
    /\ planLock' = "free"
    /\ cpc' = [cpc EXCEPT ![c] = AfterCall(c)]
    /\ carg' = [carg EXCEPT ![c] = NoCall]
    /\ cit' = [cit EXCEPT ![c] = EndIt]

\* one turn of the loop of add(): the entry at the iterator, or the insert
CmdScan(c) ==
    /\ ~crashed
    /\ cpc[c] = "scan"
    /\ LET T == carg[c].t
           it == cit[c]
           kind == IF it = EndIt THEN "insert" ELSE ConflictKind(tgroups, it, T)
           shrunk == RemoveGroups(tgroups[it], GetUnion(tgroups[it], tgroups[T]))
       IN CASE kind = "insert" ->
                 /\ plan' = [plan EXCEPT ![T] = carg[c].r]
                 /\ CmdReturn(c)
                 /\ UNCHANGED tgroups
            [] kind = "next" ->
                 /\ cit' = [cit EXCEPT ![c] = NextKey(plan, it)]
                 /\ UNCHANGED <<plan, tgroups, planLock, cpc, carg>>
            [] kind = "identical" ->
                 /\ plan' = [Erase(plan, it) EXCEPT ![T] = carg[c].r]
                 /\ CmdReturn(c)
                 /\ UNCHANGED tgroups
            [] kind = "mutable" ->
                 /\ tgroups' = [tgroups EXCEPT ![it] = shrunk]
                 /\ IF NumPixels(it, shrunk) = 0
                    THEN /\ plan' = Erase(plan, it)
                         /\ cit' = [cit EXCEPT ![c] = NextKey(plan, it)]
                         /\ UNCHANGED cpc
                    ELSE /\ cpc' = [cpc EXCEPT ![c] = "resize"]
                         /\ UNCHANGED <<plan, cit>>
                 /\ UNCHANGED <<planLock, carg>>
            [] kind = "single" ->
                 /\ plan' = Erase(plan, it)
                 /\ cit' = [cit EXCEPT ![c] = NextKey(plan, it)]
                 /\ UNCHANGED <<tgroups, planLock, cpc, carg>>
            [] OTHER ->
                 /\ CmdReturn(c)
                 /\ UNCHANGED <<plan, tgroups>>
    /\ UNCHANGED <<extVars, pacerVars, pool, first, rsize, last, lifeVars, rlock, callers, ncalls, serial,
                   frameVars, workerVars, fbVars, ghostVars>>

\* CmdResize without r->lock()
CmdResize_NoLock(c) ==
    /\ ~crashed
    /\ cpc[c] = "resize"
    /\ rsize' = ResizeTo(rsize, plan[cit[c]], NumPixels(cit[c], tgroups[cit[c]]))
    /\ cit' = [cit EXCEPT ![c] = NextKey(plan, cit[c])]
    /\ cpc' = [cpc EXCEPT ![c] = "scan"]
    /\ UNCHANGED <<extVars, pacerVars, pool, first, plan, tgroups, last, lifeVars, lockVars, callers, carg,
                   ncalls, serial, frameVars, workerVars, fbVars, ghostVars>>

\* r->lock(); r->resize(t->numPixels()); r->unlock() for the shrunk entry
CmdResize(c) ==
    /\ ~crashed
    /\ cpc[c] = "resize"
    /\ rlock[plan[cit[c]]] = 0
    /\ rsize' = ResizeTo(rsize, plan[cit[c]], NumPixels(cit[c], tgroups[cit[c]]))
    /\ cit' = [cit EXCEPT ![c] = NextKey(plan, cit[c])]
    /\ cpc' = [cpc EXCEPT ![c] = "scan"]
    /\ UNCHANGED <<extVars, pacerVars, pool, first, plan, tgroups, last, lifeVars, lockVars, callers, carg,
                   ncalls, serial, frameVars, workerVars, fbVars, ghostVars>>

\* remove(target)
CmdRemove(c, t) ==
    /\ ~crashed
    /\ sharedInstance
    /\ cpc[c] = "idle"
    /\ ncalls < MaxCalls
    /\ ncalls' = ncalls + 1
    /\ ~NullTarget(t)
    /\ PlanLockFree
    /\ plan' = RemoveOp(plan, tgroups, rsize, t).plan
    /\ serial' = StateOf(RemoveOp(plan, tgroups, rsize, t))
    /\ UNCHANGED <<extVars, pacerVars, pool, first, tgroups, rsize, last, lifeVars, lockVars, callers, cpc,
                   carg, cit, frameVars, workerVars, fbVars, ghostVars>>

\* the caller's reference was the last one: ~Pipeline() joins the frame thread
CmdJoin(c) ==
    /\ ~crashed
    /\ cpc[c] = "join"
    /\ fpc = "exited"
    /\ cpc' = [cpc EXCEPT ![c] = "idle"]
    /\ destroyed' = TRUE
    /\ UNCHANGED <<extVars, pacerVars, planVars, starts, oldRefs, sharedInstance, shouldTerminate, crashed, spc,
                   lockVars, callers, carg, cit, ncalls, serial, frameVars,
                   workerVars, fbVars, ghostVars>>

\* --------------------------------------------------------- framebuffer
(* Framebuffer: writes go to the generation the open token names and become
   visible to readers when endFrame closes it; a reader gets the last
   generation closed. *)
FbStartFrame(tok) == tok + 1
FbWrite(open, back, px) == IF open THEN back \cup {px} ELSE back
FbEndFrame(tok, back) == [gen |-> tok, pixels |-> back]
FbRead(front) == front

\* --------------------------------------------------------- frame thread
\* LoopCondition that never reads the flag
LoopCondition_Forever == TRUE

\* while(!this->shouldTerminate)
LoopCondition == ~shouldTerminate

\* JoinedAll without the wait
JoinedAll_NoWait == TRUE

\* for(auto const &f : jobs) f.wait(): the future of every job is ready
JoinedAll == pending = {}

\* SnapshotOf that keeps the copy of the frame before
SnapshotOf_Stale(pl) == currentPlan

\* currentPlan = this->plan: a copy of the map
SnapshotOf(pl) == pl

\* FrameNext on the plan itself instead of the copy
FrameNext_Live(it) == NextKey(plan, it)

\* for(auto const &[target, renderable] : currentPlan): the next entry
FrameNext(it) == NextKey(currentPlan, it)

\* readConfig(), the pool, the counters: sleepInaccuracy =
\* sleepInaccuracySamples = 0
FInit ==
    /\ ~crashed
    /\ fpc = "init"
    /\ poolRunning' = TRUE
    /\ sleepInaccuracy' = [num |-> 0, den |-> 1]
    /\ sleepInaccuracySamples' = 0
    /\ sleepErrors' = <<>>
    /\ fpc' = "check"
    /\ UNCHANGED <<extVars, sleepCases, lastSleep, planVars, lifeVars, lockVars, cmdVars,
                   currentPlan, fit, totalFrames, queue, pending, workerVars,
                   fbVars, ghostVars>>

FCheck ==
    /\ ~crashed
    /\ fpc = "check"
    /\ IF LoopCondition
       THEN /\ totalFrames < MaxFrames
            /\ fpc' = "snapshot"
       ELSE fpc' = "shutdown"
    /\ UNCHANGED <<extVars, pacerVars, planVars, lifeVars, lockVars, cmdVars, currentPlan, fit,
                   totalFrames, queue, pending, poolRunning, workerVars, fbVars,
                   ghostVars>>

\* currentPlan = this->plan under planLock
FSnapshot ==
    /\ ~crashed
    /\ fpc = "snapshot"
    /\ PlanLockFree
    /\ currentPlan' = SnapshotOf(plan)
    /\ fpc' = IF Keys(plan) = {} THEN "sleep" ELSE "startFrame"
    /\ UNCHANGED <<extVars, pacerVars, planVars, lifeVars, lockVars, cmdVars, fit, totalFrames,
                   queue, pending, poolRunning, workerVars, fbVars, ghostVars>>

FStartFrame ==
    /\ ~crashed
    /\ fpc = "startFrame"
    /\ fbOpen' = TRUE
    /\ fbToken' = FbStartFrame(fbToken)
    /\ fbBack' = {}
    /\ fit' = FirstKey(currentPlan)
    /\ fpc' = "prepare"
    /\ prepared' = {}
    /\ rendered' = {}
    /\ finished' = {}
    /\ jobFailed' = FALSE
    /\ UNCHANGED <<extVars, pacerVars, planVars, lifeVars, lockVars, cmdVars, currentPlan,
                   totalFrames, queue, pending, poolRunning, workerVars, fbFront,
                   lastRead, everThrown>>

\* renderable->lock(); renderable->prepare(); renderable->unlock()
FPrepare ==
    /\ ~crashed
    /\ fpc = "prepare"
    /\ rlock[currentPlan[fit]] = 0
    /\ prepared' = prepared \cup {fit}
    /\ IF FrameNext(fit) = EndIt
       THEN /\ fpc' = "submit"
            /\ fit' = FirstKey(currentPlan)
       ELSE /\ fit' = FrameNext(fit)
            /\ UNCHANGED fpc
    /\ UNCHANGED <<extVars, pacerVars, planVars, lifeVars, lockVars, cmdVars, currentPlan,
                   totalFrames, queue, pending, poolRunning, workerVars, fbVars,
                   rendered, finished, jobFailed, everThrown>>

\* submitRenderJob(renderable, target): pool->push
FSubmit ==
    /\ ~crashed
    /\ fpc = "submit"
    /\ queue' = Append(queue, [t |-> fit, r |-> currentPlan[fit], frame |-> fbToken])
    /\ pending' = pending \cup {fit}
    /\ IF FrameNext(fit) = EndIt
       THEN /\ fpc' = "wait"
            /\ fit' = EndIt
       ELSE /\ fit' = FrameNext(fit)
            /\ UNCHANGED fpc
    /\ UNCHANGED <<extVars, pacerVars, planVars, lifeVars, lockVars, cmdVars, currentPlan,
                   totalFrames, poolRunning, workerVars, fbVars, ghostVars>>

FWait ==
    /\ ~crashed
    /\ fpc = "wait"
    /\ JoinedAll
    /\ fpc' = "finish"
    /\ fit' = FirstKey(currentPlan)
    /\ UNCHANGED <<extVars, pacerVars, planVars, lifeVars, lockVars, cmdVars, currentPlan,
                   totalFrames, queue, pending, poolRunning, workerVars, fbVars,
                   ghostVars>>

\* renderable->lock(); renderable->finish(); renderable->unlock()
FFinish ==
    /\ ~crashed
    /\ fpc = "finish"
    /\ rlock[currentPlan[fit]] = 0
    /\ finished' = finished \cup {fit}
    /\ IF FrameNext(fit) = EndIt
       THEN /\ fpc' = "endFrame"
            /\ fit' = EndIt
       ELSE /\ fit' = FrameNext(fit)
            /\ UNCHANGED fpc
    /\ UNCHANGED <<extVars, pacerVars, planVars, lifeVars, lockVars, cmdVars, currentPlan,
                   totalFrames, queue, pending, poolRunning, workerVars, fbVars,
                   prepared, rendered, jobFailed, everThrown>>

\* FEndFrame that leaves the frame without closing the token
FEndFrame_Skipped ==
    /\ ~crashed
    /\ fpc = "endFrame"
    /\ fpc' = "sleep"
    /\ UNCHANGED <<extVars, pacerVars, planVars, lifeVars, lockVars, cmdVars, currentPlan, fit,
                   totalFrames, queue, pending, poolRunning, workerVars, fbVars,
                   ghostVars>>

\* this->fb->endFrame(token)
FEndFrame ==
    /\ ~crashed
    /\ fpc = "endFrame"
    /\ fbFront' = FbEndFrame(fbToken, fbBack)
    /\ fbOpen' = FALSE
    /\ fpc' = "sleep"
    /\ UNCHANGED <<extVars, pacerVars, planVars, lifeVars, lockVars, cmdVars, currentPlan, fit,
                   totalFrames, queue, pending, poolRunning, workerVars, fbToken,
                   fbBack, lastRead, ghostVars>>

\* this->totalFrames++; this->sleep(start), which ends in compensateSleep()
FSleep ==
    /\ ~crashed
    /\ fpc = "sleep"
    /\ totalFrames' = totalFrames + 1
    /\ \E c \in sleepCases :
          LET requested == Requested(c.elapsed, sleepInaccuracy)
              actual == Measured(requested, c.over)
          IN /\ sleepInaccuracy' = CompensateSleep(sleepInaccuracy,
                                       sleepInaccuracySamples, requested, actual)
             /\ sleepInaccuracySamples' = sleepInaccuracySamples + 1
             /\ sleepErrors' = Append(sleepErrors, actual - requested)
             /\ lastSleep' = [done |-> TRUE, requested |-> requested,
                              called |-> TRUE, failed |-> SleepFails(requested),
                              bias |-> sleepInaccuracy,
                              samples |-> sleepInaccuracySamples]
    /\ fpc' = "check"
    /\ UNCHANGED <<extVars, sleepCases, planVars, lifeVars, lockVars, cmdVars, currentPlan,
                   fit, queue, pending, poolRunning, workerVars, fbVars, ghostVars>>

\* this->pool->stop(false): drops queued jobs, joins the pool's threads
FShutdown ==
    /\ ~crashed
    /\ fpc = "shutdown"
    /\ \A w \in Workers : wpc[w] = "idle"
    /\ queue' = <<>>
    /\ poolRunning' = FALSE
    /\ fpc' = "exited"
    /\ UNCHANGED <<extVars, pacerVars, planVars, lifeVars, lockVars, cmdVars, currentPlan, fit,
                   totalFrames, pending, workerVars, fbVars, ghostVars>>

FrameThread ==
    \/ FInit \/ FCheck \/ FSnapshot \/ FStartFrame \/ FPrepare \/ FSubmit
    \/ FWait \/ FFinish \/ FEndFrame \/ FSleep \/ FShutdown

\* ------------------------------------------------------ render workers
\* a pool thread takes the oldest queued job; the pool made by
\* thread_pool(numRenderThreads) has the threads 1..numRenderThreads
WTake(w) ==
    /\ ~crashed
    /\ poolRunning
    /\ w <= numRenderThreads
    /\ wpc[w] = "idle"
    /\ queue # <<>>
    /\ wjob' = [wjob EXCEPT ![w] = Head(queue)]
    /\ queue' = Tail(queue)
    /\ wpc' = [wpc EXCEPT ![w] = "lock"]
    /\ UNCHANGED <<extVars, pacerVars, planVars, lifeVars, lockVars, cmdVars, fpc, currentPlan, fit,
                   totalFrames, pending, poolRunning, numRenderThreads, fbVars,
                   ghostVars>>

\* renderOne: renderable->lock(), then inside renderable->render()
WLock(w) ==
    /\ ~crashed
    /\ wpc[w] = "lock"
    /\ rlock[wjob[w].r] = 0
    /\ rlock' = [rlock EXCEPT ![wjob[w].r] = w]
    /\ wpc' = [wpc EXCEPT ![w] = "render"]
    /\ rendered' = rendered \cup {wjob[w].t}
    /\ UNCHANGED <<extVars, pacerVars, planVars, lifeVars, planLock, cmdVars, frameVars, wjob,
                   numRenderThreads, fbVars, prepared, finished, jobFailed,
                   everThrown>>

\* render() returned; inside target->inscreteFrame(fb, renderable)
WRender(w) ==
    /\ ~crashed
    /\ wpc[w] = "render"
    /\ wpc' = [wpc EXCEPT ![w] = "inscribe"]
    /\ UNCHANGED <<extVars, pacerVars, planVars, lifeVars, lockVars, cmdVars, frameVars, wjob,
                   numRenderThreads, fbVars, ghostVars>>

\* inscreteFrame wrote the pixels; renderable->unlock(); the future is ready
WInscribe(w) ==
    /\ ~crashed
    /\ wpc[w] = "inscribe"
    /\ fbBack' = FbWrite(fbOpen, fbBack, [t |-> wjob[w].t, frame |-> wjob[w].frame])
    /\ rlock' = [rlock EXCEPT ![wjob[w].r] = 0]
    /\ pending' = pending \ {wjob[w].t}
    /\ wpc' = [wpc EXCEPT ![w] = "idle"]
    /\ wjob' = [wjob EXCEPT ![w] = NoJob]
    /\ UNCHANGED <<extVars, pacerVars, planVars, lifeVars, planLock, cmdVars, fpc, currentPlan, fit,
                   totalFrames, queue, poolRunning, numRenderThreads, fbOpen,
                   fbToken, fbFront, lastRead, ghostVars>>

(* render() or inscreteFrame() throws: the exception leaves renderOne past
   renderable->unlock() and is stored in the job's future, which becomes
   ready; the lock stays taken. *)
WThrow(w) ==
    /\ ~crashed
    /\ wpc[w] \in {"render", "inscribe"}
    /\ pending' = pending \ {wjob[w].t}
    /\ wpc' = [wpc EXCEPT ![w] = "idle"]
    /\ wjob' = [wjob EXCEPT ![w] = NoJob]
    /\ jobFailed' = TRUE
    /\ everThrown' = TRUE
    /\ UNCHANGED <<extVars, pacerVars, planVars, lifeVars, lockVars, cmdVars, fpc, currentPlan, fit,
                   totalFrames, queue, poolRunning, numRenderThreads, fbVars,
                   prepared, rendered, finished>>

Worker(w) == WTake(w) \/ WLock(w) \/ WRender(w) \/ WInscribe(w)

\* -------------------------------------------------------------- reader
\* an output worker reads the framebuffer
Read ==
    /\ ~crashed
    /\ lastRead # FbRead(fbFront)
    /\ lastRead' = FbRead(fbFront)
    /\ UNCHANGED <<extVars, pacerVars, planVars, lifeVars, lockVars, cmdVars, frameVars, workerVars,
                   fbOpen, fbToken, fbBack, fbFront, ghostVars>>

CmdContinue(c) == CmdScan(c) \/ CmdResize(c) \/ CmdJoin(c)

Next ==
    \/ Terminate
    \/ Stop
    \/ StopJoin
    \/ \E c \in callers, r \in Renderables, t \in pool : CmdAdd(c, r, t)
    \/ \E c \in callers, t \in pool : CmdRemove(c, t)
    \/ \E c \in callers : CmdScan(c)
    \/ \E c \in callers : CmdResize(c)
    \/ \E c \in callers : CmdJoin(c)
    \/ FInit \/ FCheck \/ FSnapshot \/ FStartFrame \/ FPrepare \/ FSubmit
    \/ FWait \/ FFinish \/ FEndFrame \/ FSleep \/ FShutdown
    \/ \E w \in Workers : WTake(w)
    \/ \E w \in Workers : WLock(w)
    \/ \E w \in Workers : WRender(w)
    \/ \E w \in Workers : WInscribe(w)
    \/ \E w \in Workers : WThrow(w)
    \/ Read

Spec == Init /\ [][Next]_vars

\* SpecLin: the running pipeline with several threads calling add and remove
InitLin ==
    /\ pool = SpecTargets
    /\ callers = Callers
    /\ InitObjects
    /\ InitPipeline
    /\ numRenderThreads = NumRenderThreads
    /\ sleepCases = {OnTime}
    /\ InitCollaborators

SpecLin == InitLin /\ [][Next]_vars

\* SpecShared: the running pipeline whose command thread also holds a target
\* that is no group container, so that one renderable can be bound twice
SharedTargets == {2, 3, 6}

InitShared ==
    /\ pool = SharedTargets
    /\ callers = {1}
    /\ InitObjects
    /\ InitPipeline
    /\ numRenderThreads = NumRenderThreads
    /\ sleepCases = {OnTime}
    /\ InitCollaborators

SpecShared == InitShared /\ [][Next]_vars

\* SpecConfig: the running pipeline under every value the configuration can
\* hold for render.pipeline.threads, an unsigned number
ConfigThreads == 0..NumRenderThreads

InitConfig ==
    /\ pool = SpecTargets
    /\ callers = {1}
    /\ InitObjects
    /\ InitPipeline
    /\ numRenderThreads \in ConfigThreads
    /\ sleepCases = {OnTime}
    /\ InitCollaborators

SpecConfig == InitConfig /\ [][Next]_vars

(***************************************************************************)
(* SpecLife: start() and stop() called again and again.  The model follows *)
(* the instance sharedInstance points to.  An instance that stop() dropped *)
(* while a thread was inside one of its calls lives on, with its frame     *)
(* thread, until that thread leaves: of it the model keeps the threads     *)
(* inside (oldRefs) and the renderable locks its workers hold.             *)
(***************************************************************************)
\* owner of a renderable lock held by a worker of a dropped instance
OldOwner == NumRenderThreads + 1

\* an instance stop() dropped is still alive
OldAlive == oldRefs # {}

(* Pipeline::start(): XASSERT(!sharedInstance, ...), then
   sharedInstance = make_shared<Pipeline>(): a new framebuffer, an empty
   plan, shouldTerminate = false and a new frame thread. *)
Start ==
    /\ ~crashed
    /\ spc = "idle"
    /\ starts < MaxStarts
    /\ IF sharedInstance
       THEN /\ last' = Called("start", NoR, 0, "AlreadyRunning")
            /\ UNCHANGED <<plan, lifeVars, lockVars, cpc, carg, cit, serial,
                           frameVars, wpc, wjob, fbVars, prepared, rendered,
                           finished, jobFailed>>
       ELSE /\ last' = Called("start", NoR, 0, "ok")
            /\ starts' = starts + 1
            /\ oldRefs' = IF destroyed THEN oldRefs
                          ELSE oldRefs \cup {c \in Callers : cpc[c] # "idle"}
            /\ sharedInstance' = TRUE
            /\ shouldTerminate' = FALSE
            /\ destroyed' = FALSE
            /\ UNCHANGED <<crashed, spc>>
            /\ plan' = [t \in Targets |-> NoR]
            /\ planLock' = "free"
            /\ rlock' = [r \in Renderables |-> IF rlock[r] = 0 THEN 0 ELSE OldOwner]
            /\ cpc' = [c \in Callers |-> "idle"]
            /\ carg' = [c \in Callers |-> NoCall]
            /\ cit' = [c \in Callers |-> EndIt]
            /\ serial' = [plan |-> plan', tgroups |-> tgroups, rsize |-> rsize]
            /\ fpc' = "init"
            /\ currentPlan' = [t \in Targets |-> NoR]
            /\ fit' = EndIt
            /\ totalFrames' = 0
            /\ queue' = <<>>
            /\ pending' = {}
            /\ poolRunning' = FALSE
            /\ wpc' = [w \in Workers |-> "idle"]
            /\ wjob' = [w \in Workers |-> NoJob]
            /\ fbOpen' = FALSE
            /\ fbToken' = 0
            /\ fbBack' = {}
            /\ fbFront' = [gen |-> 0, pixels |-> {}]
            /\ lastRead' = [gen |-> 0, pixels |-> {}]
            /\ prepared' = {}
            /\ rendered' = {}
            /\ finished' = {}
            /\ jobFailed' = FALSE
    /\ UNCHANGED <<extVars, pacerVars, pool, tgroups, rsize, first, callers, ncalls,
                   numRenderThreads, everThrown>>

(* a thread inside a call on a dropped instance returns; the last to return
   drops the last reference: ~Pipeline() joins the frame thread, which has
   joined its pool *)
OldReturn(c) ==
    /\ ~crashed
    /\ c \in oldRefs
    /\ oldRefs' = oldRefs \ {c}
    /\ rlock' = IF oldRefs' = {}
                THEN [r \in Renderables |-> IF rlock[r] = OldOwner THEN 0 ELSE rlock[r]]
                ELSE rlock
    /\ UNCHANGED <<extVars, pacerVars, planVars, sharedInstance, shouldTerminate, destroyed, crashed,
                   spc, starts, planLock, cmdVars, frameVars, workerVars, fbVars,
                   ghostVars>>

NextLife ==
    \/ Start
    \/ Stop
    \/ StopJoin
    \/ \E c \in oldRefs : OldReturn(c)
    \/ \E c \in callers \ oldRefs, r \in Renderables, t \in pool : CmdAdd(c, r, t)
    \/ \E c \in callers \ oldRefs, t \in pool : CmdRemove(c, t)
    \/ \E c \in callers : CmdScan(c)
    \/ \E c \in callers : CmdResize(c)
    \/ \E c \in callers : CmdJoin(c)
    \/ FInit \/ FCheck \/ FSnapshot \/ FStartFrame \/ FPrepare \/ FSubmit
    \/ FWait \/ FFinish \/ FEndFrame \/ FSleep \/ FShutdown
    \/ \E w \in Workers : WTake(w)
    \/ \E w \in Workers : WLock(w)
    \/ \E w \in Workers : WRender(w)
    \/ \E w \in Workers : WInscribe(w)

SpecLife == Init /\ [][NextLife]_vars

\* SpecPacer: the frame thread pacing frames of an empty plan, under every
\* case of the clock and of the OS sleep
InitPacer ==
    /\ pool = SpecTargets
    /\ callers = {1}
    /\ InitObjects
    /\ InitPipeline
    /\ numRenderThreads = NumRenderThreads
    /\ sleepCases = AllSleepCases
    /\ InitCollaborators

NextPacer ==
    \/ FInit \/ FCheck \/ FSnapshot \/ FSleep \/ FShutdown
    \/ Terminate

SpecPacer == InitPacer /\ [][NextPacer]_vars

(***************************************************************************)
(* SpecIdentical: command threads at work on a plan that earlier calls     *)
(* built, before the frame thread takes its first step.  The earlier calls *)
(* add(r1, M), add(r1, I), remove(M), add(r2, S), with M the mutable       *)
(* container 5, I the immutable container 4 and S the one-group container  *)
(* 3, leave the entries S -> r2 and I -> r1, M with the one group of S,    *)
(* and r1 resized to one pixel.                                            *)
(***************************************************************************)
IdenticalTargets == {3, 4, 5}

InitIdentical ==
    /\ pool = IdenticalTargets
    /\ callers = Callers
    /\ plan = [t \in Targets |-> IF t = 3 THEN 2 ELSE IF t = 4 THEN 1 ELSE NoR]
    /\ tgroups = [t \in Targets |-> IF t = 5 THEN {2} ELSE TargetPool[t].groups]
    /\ rsize = [r \in Renderables |-> 1]
    /\ last = [call |-> NoCall,
               before |-> [plan |-> plan, tgroups |-> tgroups, rsize |-> rsize]]
    /\ first = last
    /\ InitPipeline
    /\ numRenderThreads = NumRenderThreads
    /\ sleepCases = {OnTime}
    /\ InitCollaborators

NextIdentical ==
    \/ \E c \in callers, r \in Renderables, t \in pool : CmdAdd(c, r, t)
    \/ \E c \in callers, t \in pool : CmdRemove(c, t)
    \/ \E c \in callers : CmdScan(c)
    \/ Terminate

SpecIdentical == InitIdentical /\ [][NextIdentical]_vars

\* every thread that can take a step eventually does; nothing makes a caller
\* call, and nothing makes render() throw
Fairness ==
    /\ WF_vars(FrameThread)
    /\ \A w \in Workers : WF_vars(Worker(w))
    /\ WF_vars(\E c \in callers : CmdContinue(c))
    /\ WF_vars(StopJoin)

\* the pipeline without the reader of the framebuffer: a read changes nothing
\* that another thread reads
NextFair ==
    \/ Terminate
    \/ Stop
    \/ StopJoin
    \/ \E c \in callers, r \in Renderables, t \in pool : CmdAdd(c, r, t)
    \/ \E c \in callers, t \in pool : CmdRemove(c, t)
    \/ \E c \in callers : CmdScan(c)
    \/ \E c \in callers : CmdResize(c)
    \/ \E c \in callers : CmdJoin(c)
    \/ FInit \/ FCheck \/ FSnapshot \/ FStartFrame \/ FPrepare \/ FSubmit
    \/ FWait \/ FFinish \/ FEndFrame \/ FSleep \/ FShutdown
    \/ \E w \in Workers : WTake(w)
    \/ \E w \in Workers : WLock(w)
    \/ \E w \in Workers : WRender(w)
    \/ \E w \in Workers : WInscribe(w)
    \/ \E w \in Workers : WThrow(w)

SpecFair == Init /\ [][NextFair]_vars /\ Fairness

(***************************************************************************)
(* SpecDestroy: an instance with two plan entries whose last reference is  *)
(* dropped without stop() or terminate(), as when the static               *)
(* sharedInstance is destroyed at exit.  Every render call returns.        *)
(***************************************************************************)
\* ~Pipeline() that does not call terminate()
Destroy_NoTerminate ==
    /\ ~crashed
    /\ spc = "idle"
    /\ sharedInstance
    /\ ~OtherReference
    /\ sharedInstance' = FALSE
    /\ spc' = "join"
    /\ UNCHANGED <<extVars, pacerVars, planVars, shouldTerminate, starts, oldRefs, destroyed, crashed,
                   lockVars, cmdVars, frameVars, workerVars, fbVars, ghostVars>>

(* ~Pipeline() up to worker->join(): if(!shouldTerminate) terminate(), which
   sets the flag.  StopJoin is the join. *)
Destroy ==
    /\ ~crashed
    /\ spc = "idle"
    /\ sharedInstance
    /\ ~OtherReference
    /\ shouldTerminate' = IF ~shouldTerminate
                          THEN TerminateFlag(shouldTerminate)
                          ELSE shouldTerminate
    /\ sharedInstance' = FALSE
    /\ spc' = "join"
    /\ UNCHANGED <<extVars, pacerVars, planVars, starts, oldRefs, destroyed, crashed,
                   lockVars, cmdVars, frameVars, workerVars, fbVars, ghostVars>>

\* the plan after add(r1, target 1) and add(r2, target 2)
InitDestroy ==
    /\ pool = {1, 2}
    /\ callers = {1}
    /\ plan = [t \in Targets |-> IF t \in {1, 2} THEN t ELSE NoR]
    /\ tgroups = [t \in Targets |-> TargetPool[t].groups]
    /\ rsize = [r \in Renderables |-> 2]
    /\ last = [call |-> NoCall,
               before |-> [plan |-> plan, tgroups |-> tgroups, rsize |-> rsize]]
    /\ first = last
    /\ InitPipeline
    /\ numRenderThreads = NumRenderThreads
    /\ sleepCases = {OnTime}
    /\ InitCollaborators

NextDestroy ==
    \/ Destroy
    \/ StopJoin
    \/ FInit \/ FCheck \/ FSnapshot \/ FStartFrame \/ FPrepare \/ FSubmit
    \/ FWait \/ FFinish \/ FEndFrame \/ FSleep \/ FShutdown
    \/ \E w \in Workers : WTake(w)
    \/ \E w \in Workers : WLock(w)
    \/ \E w \in Workers : WRender(w)
    \/ \E w \in Workers : WInscribe(w)

SpecDestroy == InitDestroy /\ [][NextDestroy]_vars /\ Fairness

(***************************************************************************)
(* SpecCommands: a client of the command server sends requests.            *)
(* processClientRequest makes an empty response, calls the handler of the  *)
(* request's type and writes the response.                                 *)
(***************************************************************************)
AddMappingRequest ==
    /\ nreq < MaxRequests
    /\ \E req \in AddMappingRequests :
         \E out \in {ClientRequestAddMapping(EmptyJson, req, routines, mapperCalls)} :
            /\ request' = req
            /\ response' = out.response
            /\ mapperCalls' = out.calls
    /\ nreq' = nreq + 1
    /\ UNCHANGED <<pipelineVars, serverVars, storeVars, routines>>

RemoveMappingRequest ==
    /\ nreq < MaxRequests
    /\ \E req \in RemoveMappingRequests :
         \E out \in {ClientRequestRemoveMapping(EmptyJson, req, mapperCalls)} :
            /\ request' = req
            /\ response' = out.response
            /\ mapperCalls' = out.calls
    /\ nreq' = nreq + 1
    /\ UNCHANGED <<pipelineVars, serverVars, storeVars, routines>>

UpdateRoutineRequest ==
    /\ nreq < MaxRequests
    /\ \E req \in UpdateRoutineRequests :
         \E out \in {ClientRequestUpdateRoutine(EmptyJson, req, routines)} :
            /\ request' = req
            /\ response' = out.response
            /\ routines' = out.routines
    /\ nreq' = nreq + 1
    /\ UNCHANGED <<pipelineVars, serverVars, storeVars, mapperCalls>>

NextCommands ==
    \/ AddMappingRequest
    \/ RemoveMappingRequest
    \/ UpdateRoutineRequest

SpecCommands == Init /\ [][NextCommands]_vars

(***************************************************************************)
(* SpecServer: CommandServer::start() and stop() with the server thread    *)
(* and the client threads.  A close() of a socket on which another thread  *)
(* is blocked makes the blocked call return with an error.                 *)
(***************************************************************************)
\* CommandServer::start(): worker = new std::thread(CommandServerEntry, this)
ServerStart ==
    /\ tpc = "none"
    /\ tpc' = "create"
    /\ UNCHANGED <<pipelineVars, handlerVars, storeVars, run, sock, stpc, sti, nclients, clpc, clfd>>

\* createSocket(): unlink, socket(), bind(), listen()
TCreateSocket ==
    /\ tpc = "create"
    /\ sock' = "open"
    /\ tpc' = "setrun"
    /\ UNCHANGED <<pipelineVars, handlerVars, storeVars, run, stpc, sti, nclients, clpc, clfd>>

\* createSocket(): this->run = true
TSetRun ==
    /\ tpc = "setrun"
    /\ run' = TRUE
    /\ tpc' = "loop"
    /\ UNCHANGED <<pipelineVars, handlerVars, storeVars, sock, stpc, sti, nclients, clpc, clfd>>

\* threadEntry(): while(this->run)
TLoop ==
    /\ tpc = "loop"
    /\ tpc' = IF run THEN "accept" ELSE "unlink"
    /\ UNCHANGED <<pipelineVars, handlerVars, storeVars, run, sock, stpc, sti, nclients, clpc, clfd>>

(* threadEntry(): accept() returns a connection, and acceptClient() starts
   the client's thread and records it *)
TAcceptClient ==
    /\ tpc = "accept"
    /\ sock = "open"
    /\ nclients < MaxClients
    /\ nclients' = nclients + 1
    /\ clpc' = [clpc EXCEPT ![nclients + 1] = "read"]
    /\ clfd' = [clfd EXCEPT ![nclients + 1] = "open"]
    /\ tpc' = "loop"
    /\ UNCHANGED <<pipelineVars, handlerVars, storeVars, run, sock, stpc, sti>>

\* threadEntry(): accept() returns -1 on the closed socket; continue
TAcceptFails ==
    /\ tpc = "accept"
    /\ sock = "closed"
    /\ tpc' = "loop"
    /\ UNCHANGED <<pipelineVars, handlerVars, storeVars, run, sock, stpc, sti, nclients, clpc, clfd>>

\* threadEntry(): unlink(socketPath) and return
TUnlink ==
    /\ tpc = "unlink"
    /\ tpc' = "exited"
    /\ UNCHANGED <<pipelineVars, handlerVars, storeVars, run, sock, stpc, sti, nclients, clpc, clfd>>

ServerThread == TCreateSocket \/ TSetRun \/ TLoop \/ TAcceptFails \/ TUnlink

(* clientThreadEntry(): read() returns 0 because the peer closed; the thread
   leaves the loop and closes its socket *)
ClientHangsUp(k) ==
    /\ clpc[k] = "read"
    /\ clfd[k] = "open"
    /\ clpc' = [clpc EXCEPT ![k] = "exited"]
    /\ clfd' = [clfd EXCEPT ![k] = "closed"]
    /\ UNCHANGED <<pipelineVars, handlerVars, storeVars, run, sock, tpc, stpc, sti, nclients>>

(* clientThreadEntry(): read() returns -1 on the socket stop() closed; the
   thread breaks if run is true and otherwise fails the while(run) test *)
ClientReadFails(k) ==
    /\ clpc[k] = "read"
    /\ clfd[k] = "closed"
    /\ clpc' = [clpc EXCEPT ![k] = "exited"]
    /\ UNCHANGED <<pipelineVars, handlerVars, storeVars, run, sock, tpc, stpc, sti, nclients, clfd>>

\* stop(): this->run = false
StopClearRun ==
    /\ tpc # "none"
    /\ stpc = "idle"
    /\ run' = FALSE
    /\ stpc' = "close"
    /\ UNCHANGED <<pipelineVars, handlerVars, storeVars, sock, tpc, sti, nclients, clpc, clfd>>

\* stop(): close(this->sock); a socket not yet made is not closed
StopCloseSocket ==
    /\ stpc = "close"
    /\ sock' = IF sock = "open" THEN "closed" ELSE sock
    /\ stpc' = "join"
    /\ UNCHANGED <<pipelineVars, handlerVars, storeVars, run, tpc, sti, nclients, clpc, clfd>>

\* stop(): this->worker->join() returns
StopJoinWorker ==
    /\ stpc = "join"
    /\ tpc = "exited"
    /\ sti' = 1
    /\ stpc' = IF nclients = 0 THEN "done" ELSE "closeclient"
    /\ UNCHANGED <<pipelineVars, handlerVars, storeVars, run, sock, tpc, nclients, clpc, clfd>>

\* stop(): if(fcntl(fd, F_GETFD) != -1) close(fd)
StopCloseClient ==
    /\ stpc = "closeclient"
    /\ clfd' = [clfd EXCEPT ![sti] = "closed"]
    /\ stpc' = "joinclient"
    /\ UNCHANGED <<pipelineVars, handlerVars, storeVars, run, sock, tpc, sti, nclients, clpc>>

\* stop(): t->join() returns, and the loop goes to the next client
StopJoinClient ==
    /\ stpc = "joinclient"
    /\ clpc[sti] = "exited"
    /\ IF sti < nclients
       THEN /\ sti' = sti + 1
            /\ stpc' = "closeclient"
       ELSE /\ stpc' = "done"
            /\ UNCHANGED sti
    /\ UNCHANGED <<pipelineVars, handlerVars, storeVars, run, sock, tpc, nclients, clpc, clfd>>

ServerStop ==
    StopCloseSocket \/ StopJoinWorker \/ StopCloseClient \/ StopJoinClient

NextServer ==
    \/ ServerStart
    \/ TCreateSocket \/ TSetRun \/ TLoop \/ TAcceptClient \/ TAcceptFails \/ TUnlink
    \/ \E k \in Clients : ClientHangsUp(k)
    \/ \E k \in Clients : ClientReadFails(k)
    \/ StopClearRun
    \/ StopCloseSocket \/ StopJoinWorker \/ StopCloseClient \/ StopJoinClient

\* every thread that can take a step eventually does; nothing makes the
\* owner call start() or stop(), and nothing makes a client connect or hang up
FairnessServer ==
    /\ WF_vars(ServerThread)
    /\ WF_vars(ServerStop)
    /\ \A k \in Clients : WF_vars(ClientReadFails(k))

SpecServer == Init /\ [][NextServer]_vars /\ FairnessServer

(***************************************************************************)
(* SpecStore: a DataStore in use and then destroyed, with or without the   *)
(* background checkpoint thread.  pthread_cancel is a request: the thread  *)
(* acts on it at its next cancellation point, which the sleep, the log     *)
(* write and the file I/O of a checkpoint are and a mutex lock is not.     *)
(***************************************************************************)
InitStore ==
    /\ pool = SpecTargets
    /\ callers = {1}
    /\ InitObjects
    /\ InitPipeline
    /\ numRenderThreads = NumRenderThreads
    /\ sleepCases = {OnTime}
    /\ InitHandlers
    /\ InitCommandServer
    /\ infoTable = [k \in {"schema_version"} |-> "1"]
    /\ lastInfo = NoInfo
    /\ checkpointThread \in {"none", "running"}
    /\ checkpointLock = "free"
    /\ cancelRequested = FALSE
    /\ ckpc = IF checkpointThread = "running" THEN "sleep" ELSE "none"
    /\ dpc = "alive"
    /\ ncheckpoints = 0

StoreGet ==
    /\ dpc = "alive"
    /\ \E key \in InfoKeys : lastInfo' = GetInfoValue(infoTable, key)
    /\ UNCHANGED <<pipelineVars, handlerVars, serverVars, infoTable, checkpointThread,
                   checkpointLock, cancelRequested, ckpc, dpc, ncheckpoints>>

StoreSet ==
    /\ dpc = "alive"
    /\ \E key \in InfoKeys, value \in InfoValues :
          infoTable' = SetInfoValue(infoTable, key, value)
    /\ UNCHANGED <<pipelineVars, handlerVars, serverVars, lastInfo, checkpointThread,
                   checkpointLock, cancelRequested, ckpc, dpc, ncheckpoints>>

\* _checkpointThreadEntry(): sleep_until returns
CkWake ==
    /\ ckpc = "sleep"
    /\ ncheckpoints < MaxCheckpoints
    /\ ncheckpoints' = ncheckpoints + 1
    /\ ckpc' = "log"
    /\ UNCHANGED <<pipelineVars, handlerVars, serverVars, infoTable, lastInfo,
                   checkpointThread, checkpointLock, cancelRequested, dpc>>

\* _checkpointThreadEntry(): LOG(INFO), then commit() is entered
CkLog ==
    /\ ckpc = "log"
    /\ ckpc' = "lock"
    /\ UNCHANGED <<pipelineVars, handlerVars, serverVars, infoTable, lastInfo,
                   checkpointThread, checkpointLock, cancelRequested, dpc, ncheckpoints>>

\* commit(): std::unique_lock<std::mutex> checkpointLk(this->checkpointLock)
CkLock ==
    /\ ckpc = "lock"
    /\ checkpointLock = "free"
    /\ checkpointLock' = "checkpoint"
    /\ ckpc' = "checkpoint"
    /\ UNCHANGED <<pipelineVars, handlerVars, serverVars, infoTable, lastInfo,
                   checkpointThread, cancelRequested, dpc, ncheckpoints>>

\* commit(): sqlite3_wal_checkpoint_v2
CkCheckpoint ==
    /\ ckpc = "checkpoint"
    /\ ckpc' = "unlock"
    /\ UNCHANGED <<pipelineVars, handlerVars, serverVars, infoTable, lastInfo,
                   checkpointThread, checkpointLock, cancelRequested, dpc, ncheckpoints>>

\* commit(): checkpointLk.unlock(), and back to the sleep
CkUnlock ==
    /\ ckpc = "unlock"
    /\ checkpointLock' = "free"
    /\ ckpc' = "sleep"
    /\ UNCHANGED <<pipelineVars, handlerVars, serverVars, infoTable, lastInfo,
                   checkpointThread, cancelRequested, dpc, ncheckpoints>>

(* the thread acts on the cancellation request at a cancellation point; the
   lock it holds then is released by the unwinding or stays taken *)
CkCancelled ==
    /\ cancelRequested
    /\ ckpc \in {"sleep", "log", "checkpoint"}
    /\ ckpc' = "cancelled"
    /\ checkpointLock' \in IF checkpointLock = "checkpoint"
                          THEN {"checkpoint", "free"}
                          ELSE {checkpointLock}
    /\ UNCHANGED <<pipelineVars, handlerVars, serverVars, infoTable, lastInfo,
                   checkpointThread, cancelRequested, dpc, ncheckpoints>>

CheckpointThread == CkLog \/ CkLock \/ CkCheckpoint \/ CkUnlock \/ CkCancelled

(* ~DataStore() enters terminateCheckpointThread(), which returns at once if
   there is no checkpoint thread *)
DDestroy ==
    /\ dpc = "alive"
    /\ dpc' = IF checkpointThread = "none" THEN "commitlock" ELSE "lock"
    /\ UNCHANGED <<pipelineVars, handlerVars, serverVars, infoTable, lastInfo,
                   checkpointThread, checkpointLock, cancelRequested, ckpc, ncheckpoints>>

\* terminateCheckpointThread() that does not take the checkpoint lock
DLock_NoLock ==
    /\ dpc = "lock"
    /\ dpc' = "cancel"
    /\ UNCHANGED <<pipelineVars, handlerVars, serverVars, infoTable, lastInfo,
                   checkpointThread, checkpointLock, cancelRequested, ckpc, ncheckpoints>>

(* terminateCheckpointThread():
   std::unique_lock<std::mutex> checkpointLk(this->checkpointLock) *)
DLock ==
    /\ dpc = "lock"
    /\ checkpointLock = "free"
    /\ checkpointLock' = "owner"
    /\ dpc' = "cancel"
    /\ UNCHANGED <<pipelineVars, handlerVars, serverVars, infoTable, lastInfo,
                   checkpointThread, cancelRequested, ckpc, ncheckpoints>>

\* terminateCheckpointThread(): pthread_cancel(native_handle())
DCancel ==
    /\ dpc = "cancel"
    /\ cancelRequested' = TRUE
    /\ dpc' = "join"
    /\ UNCHANGED <<pipelineVars, handlerVars, serverVars, infoTable, lastInfo,
                   checkpointThread, checkpointLock, ckpc, ncheckpoints>>

(* terminateCheckpointThread(): join() returns, the thread object is deleted
   and the lock released *)
DJoin ==
    /\ dpc = "join"
    /\ ckpc = "cancelled"
    /\ checkpointThread' = "deleted"
    /\ checkpointLock' = IF checkpointLock = "owner" THEN "free" ELSE checkpointLock
    /\ dpc' = "commitlock"
    /\ UNCHANGED <<pipelineVars, handlerVars, serverVars, infoTable, lastInfo,
                   cancelRequested, ckpc, ncheckpoints>>

\* ~DataStore(): commit() takes the checkpoint lock
DCommitLock ==
    /\ dpc = "commitlock"
    /\ checkpointLock = "free"
    /\ checkpointLock' = "owner"
    /\ dpc' = "commit"
    /\ UNCHANGED <<pipelineVars, handlerVars, serverVars, infoTable, lastInfo,
                   checkpointThread, cancelRequested, ckpc, ncheckpoints>>

\* ~DataStore(): commit() runs the checkpoint and releases the lock
DCommit ==
    /\ dpc = "commit"
    /\ checkpointLock' = "free"
    /\ dpc' = "close"
    /\ UNCHANGED <<pipelineVars, handlerVars, serverVars, infoTable, lastInfo,
                   checkpointThread, cancelRequested, ckpc, ncheckpoints>>

\* ~DataStore(): close()
DClose ==
    /\ dpc = "close"
    /\ dpc' = "closed"
    /\ UNCHANGED <<pipelineVars, handlerVars, serverVars, infoTable, lastInfo,
                   checkpointThread, checkpointLock, cancelRequested, ckpc, ncheckpoints>>

Destructor == DLock \/ DCancel \/ DJoin \/ DCommitLock \/ DCommit \/ DClose

NextStore ==
    \/ StoreGet
    \/ StoreSet
    \/ CkWake \/ CkLog \/ CkLock \/ CkCheckpoint \/ CkUnlock \/ CkCancelled
    \/ DDestroy
    \/ DLock \/ DCancel \/ DJoin \/ DCommitLock \/ DCommit \/ DClose

\* every thread that can take a step eventually does; nothing makes the sleep
\* end, and nothing makes the owner destroy the store
FairnessStore ==
    /\ WF_vars(CheckpointThread)
    /\ WF_vars(Destructor)

SpecStore == InitStore /\ [][NextStore]_vars /\ FairnessStore

(***************************************************************************)
(* The locks a thread holds and the lock it is about to take, by where it  *)
(* is in the code.                                                         *)
(***************************************************************************)
\* Plan -> Target -> Renderable -> Framebuffer
LockRank(l) ==
    CASE l = "plan" -> 1
      [] l = "target" -> 2
      [] l = "renderable" -> 3
      [] l = "framebuffer" -> 4

\* add() holds planLock from the lock_guard to its return
CallerHolds(c) == IF cpc[c] \in {"scan", "resize"} THEN {"plan"} ELSE {}

\* add(): t->lock() for a mutable conflicting entry; r->lock() after t->unlock()
CallerRequests(c) ==
    IF cpc[c] = "resize" THEN {"renderable"}
    ELSE IF /\ cpc[c] = "scan"
            /\ cit[c] # EndIt
            /\ ConflictKind(tgroups, cit[c], carg[c].t) = "mutable"
         THEN {"target"}
         ELSE {}

\* renderOne holds the renderable's lock across render() and inscreteFrame()
WorkerHolds(w) == IF wpc[w] \in {"render", "inscribe"} THEN {"renderable"} ELSE {}

\* renderOne: renderable->lock(); the framebuffer write inside inscreteFrame()
WorkerRequests(w) ==
    IF wpc[w] = "lock" THEN {"renderable"}
    ELSE IF wpc[w] = "inscribe" THEN {"framebuffer"}
    ELSE {}

\* workerEntry releases every lock before it takes the next one
FrameHolds == {}

\* workerEntry: planLock for the copy, the renderable's lock around prepare()
\* and finish(), the framebuffer in startFrame() and endFrame()
FrameRequests ==
    IF fpc = "snapshot" THEN {"plan"}
    ELSE IF fpc \in {"prepare", "finish"} THEN {"renderable"}
    ELSE IF fpc \in {"startFrame", "endFrame"} THEN {"framebuffer"}
    ELSE {}

(***************************************************************************)
(* Properties.                                                             *)
(***************************************************************************)
Containers(pl) == {t \in Keys(pl) : IsContainer(t)}
Coherent(t) == rsize[plan[t]] = NumPixels(t, tgroups[t])
FrameBody == {"prepare", "submit", "wait", "finish", "endFrame"}
Entries == Keys(currentPlan)

\* C1: no group id appears in two distinct GroupContainer targets of the
\* Plan, after any sequence of add calls, successful or failing.
C1_Disjoint ==
    \A t, u \in Containers(plan) : t # u => tgroups[t] \cap tgroups[u] = {}

\* an add that took groups from an existing entry and left two containers
C1_Witness ==
    /\ last.call.op = "add"
    /\ last.call.result = "ok"
    /\ last.before.tgroups # tgroups
    /\ Cardinality(Containers(plan)) >= 2

\* C2: an add that fails on an immutable multi-group container leaves the
\* Plan as it was before the call: same entries, same group ids of every
\* target, same size of every renderable.
C2_FailedAddLeavesPlan ==
    last.call.result = "conflict" => PlanState = last.before

\* C3: after a successful add every Plan entry (t, r) has
\* r.bufferSize() = t.numPixels().
C3_SizeCoherent ==
    (last.call.op = "add" /\ last.call.result = "ok")
        => \A t \in Keys(plan) : Coherent(t)

\* C4: in a frame every prepare is over before a render starts, every render
\* and inscribe is over before a finish starts, every finish is over before
\* endFrame, and the token is closed before the next startFrame.
C4_FrameOrder ==
    /\ fbOpen <=> fpc \in FrameBody
    /\ \A w \in Workers : wpc[w] # "idle" => fpc \in {"submit", "wait"}
    /\ fpc \in FrameBody =>
          /\ rendered # {} => prepared = Entries
          /\ finished # {} =>
                /\ rendered = Entries
                /\ queue = <<>>
                /\ \A w \in Workers : wpc[w] = "idle"
          /\ fpc = "endFrame" => finished = Entries

\* the second frame, with two entries, about to be closed
C4_Witness ==
    /\ fpc = "endFrame"
    /\ totalFrames = 1
    /\ Cardinality(Entries) = 2
    /\ fbFront.gen = 1

\* C5: when render or inscribe fails for an entry, the frame still joins all
\* jobs, calls finish for every entry, closes the token, and the loop goes on.
C5_FailureContained ==
    jobFailed ~> (fpc = "sleep" /\ ~fbOpen /\ finished = Entries)

\* C6: what a reader gets, at any moment, is one closed generation: every
\* pixel of it was written by a job of that generation's frame, and the
\* generation is not the one still open.
WholeGeneration(f) ==
    /\ \A px \in f.pixels : px.frame = f.gen
    /\ f.gen < fbToken \/ (f.gen = fbToken /\ ~fbOpen)

C6_NoTornRead == WholeGeneration(FbRead(fbFront)) /\ WholeGeneration(lastRead)

\* a read of generation 1 while a worker inscribes the second frame
C6_Witness ==
    /\ fbOpen
    /\ fbToken = 2
    /\ fbBack # {}
    /\ lastRead.gen = 1
    /\ lastRead.pixels # {}
    /\ \E w \in Workers : wpc[w] = "inscribe"

\* C7: for every entry (t, r) of the frame in progress,
\* r.bufferSize = t.numPixels() while a worker is inside render or inscribe
\* and when finish runs, also while a concurrent add resolves a conflict.
C7_CoherentWhileRendering ==
    /\ \A w \in Workers : wpc[w] \in {"render", "inscribe"} =>
          rsize[wjob[w].r] = NumPixels(wjob[w].t, tgroups[wjob[w].t])
    /\ (fpc = "finish" /\ rlock[currentPlan[fit]] = 0) =>
          rsize[currentPlan[fit]] = NumPixels(fit, tgroups[fit])

\* C8: the termination flag is read only between frames (the loop is left
\* only at the while test, with the flag set, and a test that finds the flag
\* set starts no further frame); the thread exits with the frame closed, the
\* pool stopped and every entry of the last frame finished; and once the flag
\* is set the thread does exit (unless a render call did not return).
C8_TerminatesBetweenFrames ==
    /\ [][/\ (fpc' = "shutdown" /\ fpc # "shutdown") =>
                 (fpc = "check" /\ shouldTerminate)
          /\ (fpc = "check" /\ shouldTerminate /\ fpc' # fpc) => fpc' = "shutdown"
          /\ (fpc' = "exited" /\ fpc # "exited") => fpc = "shutdown"]_vars
    /\ [](fpc = "exited" =>
            /\ ~fbOpen
            /\ ~poolRunning
            /\ pending = {}
            /\ Entries # {} => finished = Entries)
    /\ shouldTerminate ~> (fpc = "exited" \/ everThrown \/ crashed)

\* the frame thread has exited after a frame with entries
C8_Witness ==
    /\ fpc = "exited"
    /\ shouldTerminate
    /\ totalFrames >= 1
    /\ finished # {}
    /\ ~everThrown

C10_SecondStopNoOp ==
    [][(~sharedInstance /\ spc = "idle") => ~crashed']_vars

\* C11: when stop() has returned (the instance is released and no thread is
\* inside stop()), the termination flag is set and the frame thread has
\* exited, also when another thread held a reference to the instance.
C11_StopJoinsWorker ==
    (~sharedInstance /\ spc = "idle" /\ ~crashed) =>
        (shouldTerminate /\ fpc = "exited")

\* C12: add(r, t) that succeeded, followed by add(r, t) with the same
\* renderable and target, succeeds and leaves the Plan of the first add: same
\* entries, same group ids of every target, same size of every renderable.
C12_AddIdempotent ==
    (first.call.op = "add" /\ first.call.result = "ok" /\ last.call.op = "add")
        => (last.call.result = "ok" /\ PlanState = last.before)

\* a second add after a first one that took groups from an existing entry
C12_Witness ==
    /\ first.call.op = "add"
    /\ first.call.result = "ok"
    /\ last.call.op = "add"
    /\ first.before.tgroups # last.before.tgroups
    /\ Cardinality(Keys(plan)) >= 2

\* C13 as stated: a successful add(r, t) followed by remove(t) leaves the Plan
\* that was there before the two calls, whatever t overlaps.
C13_RoundTrip ==
    (first.call.op = "add" /\ first.call.result = "ok" /\ last.call.op = "remove")
        => PlanState = first.before

\* t is not a key of the plan pl and shares no group with a container of pl
Untouched(pl, tg, t) ==
    /\ pl[t] = NoR
    /\ \A u \in Containers(pl) : tg[u] \cap tg[t] = {}

\* C13 amended: the round trip restores the Plan when t was not a key of the
\* Plan and shared no group with a container entry of the Plan.
C13_RoundTripDisjoint ==
    (/\ first.call.op = "add"
     /\ first.call.result = "ok"
     /\ last.call.op = "remove"
     /\ Untouched(first.before.plan, first.before.tgroups, first.call.t))
        => (last.call.result = "ok" /\ PlanState = first.before)

\* a round trip of a container target on a plan that holds other containers
C13_Witness ==
    /\ first.call.op = "add"
    /\ first.call.result = "ok"
    /\ last.call.op = "remove"
    /\ IsContainer(first.call.t)
    /\ Untouched(first.before.plan, first.before.tgroups, first.call.t)
    /\ Containers(first.before.plan) # {}
    /\ PlanState = first.before

\* C14: remove(t) with t not a key of the Plan fails and leaves the Plan as
\* it was; with t a key it succeeds, erases that entry and leaves every other
\* entry, every target and every renderable as they were.
C14_RemoveAbsentOrKey ==
    (last.call.op = "remove" /\ last.call.t # 0) =>
        /\ tgroups = last.before.tgroups
        /\ rsize = last.before.rsize
        /\ IF last.before.plan[last.call.t] = NoR
           THEN last.call.result = "notfound" /\ plan = last.before.plan
           ELSE /\ last.call.result = "ok"
                /\ plan[last.call.t] = NoR
                /\ \A u \in Targets \ {last.call.t} : plan[u] = last.before.plan[u]

\* a remove of an absent target from a plan that has entries
C14_Witness ==
    /\ last.call.op = "remove"
    /\ last.call.result = "notfound"
    /\ Keys(plan) # {}

\* C15: a plan mutation with a null or empty input fails with InvalidArg and
\* leaves the Plan as it was: add with a null renderable or target, remove
\* with a null target, add(renderable, groups) with an empty list of groups.
C15_InvalidInputRefused ==
    /\ (/\ last.call.op \in {"add", "addGroups"}
        /\ (last.call.r = NoR \/ last.call.t = 0))
          => (last.call.result = "invalid" /\ PlanState = last.before)
    /\ (last.call.op = "remove" /\ last.call.t = 0)
          => (last.call.result = "invalid" /\ PlanState = last.before)
    /\ (last.call.op = "addGroups" /\ tgroups[last.call.t] = {})
          => (last.call.result = "invalid" /\ plan = last.before.plan)

\* C16: every target that is a key of the Plan has numPixels() > 0.
C16_NoEmptyTarget ==
    \A t \in Keys(plan) : NumPixels(t, tgroups[t]) > 0

\* C17: the frame in progress works on the entries of the snapshot it took:
\* every prepare, job, render and finish is for an entry (target, renderable)
\* of the snapshot, the frame ends with every entry of the snapshot finished,
\* and the snapshot does not change during the frame, whatever add and
\* remove do to the Plan meanwhile.
C17_FrameKeepsSnapshot ==
    /\ [](fpc \in FrameBody =>
            /\ fpc \in {"prepare", "submit", "finish"} => fit \in Entries
            /\ prepared \subseteq Entries
            /\ rendered \subseteq Entries
            /\ finished \subseteq Entries
            /\ \A i \in 1..Len(queue) : currentPlan[queue[i].t] = queue[i].r
            /\ \A w \in Workers :
                  wpc[w] # "idle" => currentPlan[wjob[w].t] = wjob[w].r
            /\ fpc = "endFrame" => (prepared = Entries /\ finished = Entries))
    /\ [][(fpc \in FrameBody) => currentPlan' = currentPlan]_vars

\* a frame about to close with all its entries finished after the Plan changed
C17_Witness ==
    /\ fpc = "endFrame"
    /\ finished = Entries
    /\ plan # currentPlan
    /\ ~everThrown

\* C18: an add that returns without an error leaves its entry in the Plan, an
\* entry changes or leaves the Plan only in a later add or remove, and the
\* snapshot copies every entry the Plan has when it is taken.
C18_AddVisibleAtSnapshot ==
    /\ [][\A c \in Callers :
            (cpc[c] = "scan" /\ cpc'[c] \notin {"scan", "resize"}) =>
                IF cit[c] # EndIt /\ ConflictKind(tgroups, cit[c], carg[c].t) = "throw"
                THEN plan' = plan
                ELSE plan'[carg[c].t] = carg[c].r]_vars
    /\ [][plan' # plan =>
            (planLock = "cmd" \/ planLock' = "cmd" \/ ncalls' = ncalls + 1)]_vars
    /\ [][(fpc = "snapshot" /\ fpc' # "snapshot") =>
            (planLock = "free" /\ \A t \in Targets : currentPlan'[t] = plan[t])]_vars

\* the second frame starts with an entry the first frame did not have
C18_Witness ==
    /\ fpc = "startFrame"
    /\ totalFrames = 1
    /\ fbFront.gen = 1
    /\ \E t \in Entries : \A px \in fbFront.pixels : px.t # t

\* C19: whenever planLock is free the Plan, the targets and the renderables
\* are what the calls made so far give when each runs alone, one after the
\* other in the order they took planLock; and the frame thread's snapshot is
\* taken with planLock free, so it is the Plan of such a sequence and never
\* one in the middle of a conflict resolution.
C19_Linearised ==
    /\ [](planLock = "free" => PlanState = serial)
    /\ [][(fpc = "snapshot" /\ fpc' # "snapshot") =>
            (planLock = "free" /\ currentPlan' = serial.plan)]_vars

\* the frame thread is at its snapshot while the second caller is in the
\* middle of a conflict resolution, after an earlier call
C19_Witness ==
    /\ fpc = "snapshot"
    /\ cpc[2] = "resize"
    /\ ncalls = 2
    /\ PlanState # serial

\* every lock a thread is about to take comes later in the order than the
\* locks it holds
InOrder(holds, requests) ==
    \A h \in holds, q \in requests : LockRank(h) < LockRank(q)

\* the lock of renderable r is taken and no thread is in the section that
\* releases it
Leaked(r) ==
    /\ rlock[r] # 0
    /\ ~(wpc[rlock[r]] \in {"render", "inscribe"} /\ wjob[rlock[r]].r = r)

\* a thread is blocked in r->lock()
WaitsFor(r) ==
    \/ fpc \in {"prepare", "finish"} /\ currentPlan[fit] = r
    \/ \E w \in Workers : wpc[w] = "lock" /\ wjob[w].r = r
    \/ \E c \in Callers : cpc[c] = "resize" /\ plan[cit[c]] = r

\* C20: every thread takes locks in the order Plan, Target, Renderable,
\* Framebuffer, and no thread is blocked on a lock that no thread will
\* release.
C20_LockOrderNoDeadlock ==
    /\ InOrder(FrameHolds, FrameRequests)
    /\ \A w \in Workers : InOrder(WorkerHolds(w), WorkerRequests(w))
    /\ \A c \in Callers : InOrder(CallerHolds(c), CallerRequests(c))
    /\ \A r \in Renderables : ~(Leaked(r) /\ WaitsFor(r))

\* the calls on renderable r, of those made for the entries in done
CallsOn(done, r) == Cardinality({t \in done : currentPlan[t] = r})

\* C21: in every frame each renderable of the snapshot has prepare called
\* once, render called once and finish called once, also when the renderable
\* is bound to more than one target of the Plan.
C21_OncePerRenderable ==
    (fpc \in FrameBody) =>
        \A r \in Renderables :
            /\ CallsOn(prepared, r) <= 1
            /\ CallsOn(rendered, r) <= 1
            /\ CallsOn(finished, r) <= 1

\* C22: the worker pool always has at least one thread, so the frame thread
\* never waits on render jobs it gave to a pool with no worker.
C22_PoolHasWorker ==
    /\ poolRunning => numRenderThreads >= 1
    /\ ~(fpc = "wait" /\ pending # {} /\ numRenderThreads = 0)

\* Pipeline objects alive, each with the frame thread its constructor made
Instances == (IF destroyed THEN 0 ELSE 1) + (IF OldAlive THEN 1 ELSE 0)

\* C23: at most one pipeline instance and one frame thread exist at any time;
\* start() while an instance is set fails and creates nothing; after stop() a
\* new start() creates a fresh instance.
C23_SingleInstance ==
    [][/\ Instances' <= 1
       /\ starts' # starts =>
             /\ ~sharedInstance
             /\ sharedInstance'
             /\ Keys(plan') = {}
             /\ ~shouldTerminate'
             /\ fpc' = "init"]_vars

\* the last call was add(r, T) with a container T, past the argument checks
AddedContainer ==
    /\ last.call.op = "add"
    /\ last.call.result # "invalid"
    /\ IsContainer(last.call.t)

\* the entries of the plan before the last call whose groups intersect those
\* of its target without being the same set
Overlapped ==
    {u \in Containers(last.before.plan) :
        /\ Contains(last.before.tgroups[u], last.before.tgroups[last.call.t])
        /\ ~SameGroups(last.before.tgroups[u], last.before.tgroups[last.call.t])}

\* the scan of the last add reached entry u: it met no entry before u that
\* made it throw
Met(u) ==
    ~\E v \in Overlapped :
        /\ v < u
        /\ ~IsMutable(v)
        /\ NumGroups(last.before.tgroups[v]) > 1

\* C24 as stated, for every add that meets such an entry, also one that fails
\* later in its scan: when add(r2, T) meets a mutable container entry T' -> r' whose groups
\* intersect those of T without being the same set, then after add T' holds
\* its former ids minus those of T; its entry is removed if that leaves it no
\* pixels, otherwise the entry is kept and r' has the size of the new T'; and
\* the entry T -> r2 is present.
C24_MutableShrunk ==
    AddedContainer =>
        \A u \in Overlapped :
            (IsMutable(u) /\ Met(u)) =>
                /\ tgroups[u] = last.before.tgroups[u]
                                    \ last.before.tgroups[last.call.t]
                /\ IF NumPixels(u, tgroups[u]) = 0
                   THEN plan[u] = NoR
                   ELSE /\ plan[u] = last.before.plan[u]
                        /\ rsize[plan[u]] = NumPixels(u, tgroups[u])
                /\ plan[last.call.t] = last.call.r

\* C24 amended: the same for an add that returns without an error.
C24_MutableShrunkOnSuccess ==
    (AddedContainer /\ last.call.result = "ok") =>
        \A u \in Overlapped :
            IsMutable(u) =>
                /\ tgroups[u] = last.before.tgroups[u]
                                    \ last.before.tgroups[last.call.t]
                /\ IF NumPixels(u, tgroups[u]) = 0
                   THEN plan[u] = NoR
                   ELSE /\ plan[u] = last.before.plan[u]
                        /\ rsize[plan[u]] = NumPixels(u, tgroups[u])
                /\ plan[last.call.t] = last.call.r

\* a successful add that took a group from a mutable entry, which is kept
\* with its renderable resized
C24_Witness ==
    /\ AddedContainer
    /\ last.call.result = "ok"
    /\ \E u \in Overlapped :
          /\ IsMutable(u)
          /\ plan[u] # NoR
          /\ plan[u] # last.call.r
          /\ rsize[plan[u]] # last.before.rsize[plan[u]]

\* the entries the last add met that are immutable containers of one group
SingleMet ==
    {u \in Overlapped :
        ~IsMutable(u) /\ NumGroups(last.before.tgroups[u]) = 1 /\ Met(u)}

\* an entry of the plan before the last add is an immutable container of
\* several groups that intersects the target of the add
HardConflict ==
    \E v \in Overlapped :
        ~IsMutable(v) /\ NumGroups(last.before.tgroups[v]) > 1

\* C25 as stated: when add(r2, T) meets an immutable container entry of one
\* group that T contains, with another id set than T, the old entry is
\* removed, T -> r2 is inserted and add succeeds.
C25_SingleReplaced ==
    AddedContainer =>
        \A u \in SingleMet :
            /\ plan[u] = NoR
            /\ plan[last.call.t] = last.call.r
            /\ last.call.result = "ok"

\* C25 amended: the same when no entry of the plan is an immutable container
\* of several groups that intersects T.
C25_SingleReplacedNoHardConflict ==
    (AddedContainer /\ ~HardConflict) =>
        \A u \in SingleMet :
            /\ plan[u] = NoR
            /\ plan[last.call.t] = last.call.r
            /\ last.call.result = "ok"

\* an add that replaced an immutable one-group entry and left another entry
C25_Witness ==
    /\ AddedContainer
    /\ ~HardConflict
    /\ SingleMet # {}
    /\ Cardinality(Keys(plan)) >= 2

\* where the frame thread is outside the body of a frame
BetweenFrames == {"init", "check", "snapshot", "startFrame", "sleep", "shutdown",
                  "exited"}

\* C26: at most one framebuffer generation is open at any time, and every
\* token the frame thread got from startFrame is closed by endFrame before the
\* frame thread starts another frame or leaves its loop.
C26_TokenClosed ==
    /\ fbOpen => fbToken = fbFront.gen + 1
    /\ ~fbOpen => fbToken = fbFront.gen
    /\ fpc \in BetweenFrames => ~fbOpen

\* the frame thread has left its loop after two frames
C26_Witness ==
    /\ fpc = "exited"
    /\ fbToken = 2
    /\ fbFront.gen = 2

RECURSIVE SumOf(_)
SumOf(ds) == IF ds = <<>> THEN 0 ELSE Head(ds) + SumOf(Tail(ds))

\* C27: the bias of the pacer is the arithmetic mean of all sleep errors since
\* startup: after n calls of compensateSleep with the differences d1..dn the
\* bias is (d1 + ... + dn) / n and the sample count is n.
C27_BiasIsMean ==
    /\ sleepInaccuracySamples = Len(sleepErrors)
    /\ sleepInaccuracySamples > 0 =>
          sleepInaccuracy.num * sleepInaccuracySamples
              = SumOf(sleepErrors) * sleepInaccuracy.den

\* two samples that differ, with a mean that is no whole number
C27_Witness ==
    /\ sleepInaccuracySamples = 2
    /\ sleepErrors[1] # sleepErrors[2]
    /\ (sleepErrors[1] + sleepErrors[2]) % 2 = 1

\* C28: the pacer enters the OS sleep only when the time it asks for (period
\* minus elapsed time minus bias) is positive, and when that time is not
\* positive or the OS sleep fails, the bias and its sample count stay as they
\* were.
C28_SleepOnlyWhenPositive ==
    lastSleep.done =>
        /\ lastSleep.called => lastSleep.requested > 0
        /\ (lastSleep.requested <= 0 \/ lastSleep.failed) =>
              /\ sleepInaccuracy = lastSleep.bias
              /\ sleepInaccuracySamples = lastSleep.samples

\* the last call was add(r, T) with a target that is no group container
AddedPlain ==
    /\ last.call.op = "add"
    /\ last.call.result # "invalid"
    /\ ~IsContainer(last.call.t)

\* C29: add with a target that is no GroupContainer inserts or replaces the
\* entry keyed by that target and changes nothing else: no other entry is
\* removed, no target loses a group and no renderable is resized.
C29_PlainInsertOnly ==
    AddedPlain =>
        /\ last.call.result = "ok"
        /\ plan = [last.before.plan EXCEPT ![last.call.t] = last.call.r]
        /\ tgroups = last.before.tgroups
        /\ rsize = last.before.rsize

\* a plain target rebound to another renderable while a container is mapped
C29_Witness ==
    /\ AddedPlain
    /\ last.before.plan[last.call.t] \notin {NoR, last.call.r}
    /\ Containers(plan) # {}

\* the step of add() on an entry whose groups are those of its target
IdenticalStep(c) ==
    /\ cpc[c] = "scan"
    /\ cit[c] # EndIt
    /\ ConflictKind(tgroups, cit[c], carg[c].t) = "identical"
    /\ <<cpc[c], cit[c], plan>>' # <<cpc[c], cit[c], plan>>

\* C30 as stated: when add(r2, T) finds an entry with the id set of T, the
\* entry is removed and the scan continues over the remaining entries before
\* (T, r2) is inserted.
C30_ScanContinues ==
    [][\A c \in Callers :
          (IdenticalStep(c) /\ NextKey(plan, cit[c]) # EndIt) =>
              /\ plan' = Erase(plan, cit[c])
              /\ cpc'[c] = "scan"
              /\ cit'[c] = NextKey(plan, cit[c])]_vars

\* C30 amended: the entry is removed, the scan ends there and (T, r2) is
\* inserted at once; afterwards exactly one entry has the id set of T, it maps
\* to r2, and no other entry shares a group with T.
C30_IdenticalReplaced ==
    [][\A c \in Callers :
          IdenticalStep(c) =>
              /\ plan' = [Erase(plan, cit[c]) EXCEPT ![carg[c].t] = carg[c].r]
              /\ cpc'[c] # "scan"
              /\ {v \in Containers(plan') :
                     SameGroups(tgroups'[v], tgroups'[carg[c].t])} = {carg[c].t}
              /\ \A v \in Containers(plan') \ {carg[c].t} :
                     ~Contains(tgroups'[v], tgroups'[carg[c].t])]_vars

\* the first call was add(r1, M): the entry of S, which has the groups of M,
\* is gone, M -> r1 is there, and the entry after S is as it was
C30_Witness ==
    /\ ncalls = 1
    /\ \A c \in Callers : cpc[c] = "idle"
    /\ plan[3] = NoR
    /\ plan[5] = 1
    /\ plan[4] = 1

\* a pool thread is inside render() or inscreteFrame() of renderable r
Rendering(r) ==
    \E w \in Workers : wpc[w] \in {"render", "inscribe"} /\ wjob[w].r = r

\* the step calls prepare() or finish() of renderable r
FrameCalls(r) ==
    /\ fpc \in {"prepare", "finish"}
    /\ currentPlan[fit] = r
    /\ <<prepared, finished>>' # <<prepared, finished>>

\* C31: for one renderable no two of prepare, render with its inscribe, finish
\* and resize run at the same time: a resize from add, a prepare and a finish
\* never run while a pool thread is inside render or inscribe of that
\* renderable, and no two pool threads are inside them together.
C31_LockExcludes ==
    [][\A r \in Renderables :
          /\ (rsize'[r] # rsize[r] \/ FrameCalls(r)) => ~Rendering(r)
          /\ \A v, w \in Workers :
                (/\ wpc'[v] \in {"render", "inscribe"}
                 /\ wpc'[w] \in {"render", "inscribe"}
                 /\ wjob'[v].r = r
                 /\ wjob'[w].r = r) => v = w]_vars

\* a command thread waits to resize the renderable a pool thread is rendering
C31_Witness ==
    \E c \in Callers :
        /\ cpc[c] = "resize"
        /\ Rendering(plan[cit[c]])

\* C32: renderOne releases the renderable's lock on every exit path: after a
\* render job has ended, with render and inscribe returned or one of them
\* failed, the pool thread that ran it holds no renderable's lock.
C32_LockReleased ==
    \A w \in Workers :
        wpc[w] \in {"idle", "lock"} => \A r \in Renderables : rlock[r] # w

Processed(type) ==
    /\ nreq' # nreq
    /\ request'["type"] = type

\* some id of the list is in no group of the store
AnyUnknownGroup(ids) == \E i \in 1..Len(ids) : ids[i] \notin StoredGroups

\* C34: an AddMapping request with an unknown routine id is answered with the
\* invalid-routine status, one with a known routine and an unknown group id
\* with the invalid-group status, and neither calls the mapper; a request
\* whose routine and groups are all found makes exactly one addMapping call,
\* for an OutputGroup when it names one group and for an ubergroup of the
\* listed groups when it names several, and is answered with status 0.
C34_AddMappingAllOrNothing ==
    [][Processed("kMessageAddMapping") =>
         LET routineId == request'["routine"]["id"]
             ids == request'["groups"]
         IN  IF routineId \notin DOMAIN routines
             THEN /\ response'["status"] = "kErrorInvalidRoutineId"
                  /\ mapperCalls' = mapperCalls
             ELSE IF AnyUnknownGroup(ids)
             THEN /\ response'["status"] = "kErrorInvalidGroupId"
                  /\ mapperCalls' = mapperCalls
             ELSE /\ response'["status"] = "0"
                  /\ Len(mapperCalls') = Len(mapperCalls) + 1
                  /\ SubSeq(mapperCalls', 1, Len(mapperCalls)) = mapperCalls
                  /\ LET call == mapperCalls'[Len(mapperCalls')]
                     IN  /\ call.op = "addMapping"
                         /\ call.groups = ids
                         /\ call.routine = routineId
                         /\ Len(ids) = 1 => ~call.uber
                         /\ Len(ids) > 1 => call.uber]_vars

\* an AddMapping request that named a known and then an unknown group was
\* refused after an earlier one had added an ubergroup
C34_Witness ==
    /\ nreq = 2
    /\ request["type"] = "kMessageAddMapping"
    /\ request["groups"] = <<1, 3>>
    /\ response["status"] = "kErrorInvalidGroupId"
    /\ Len(mapperCalls) = 1
    /\ mapperCalls[1].uber

\* C35: a RemoveMapping request that names an unknown group id is answered
\* with the invalid-group status and makes no call on the mapper, whatever
\* known groups it lists before the unknown one; a request whose groups are
\* all found removes the mapping of each.
C35_RemoveMappingValidatesFirst ==
    [][Processed("kMessageRemoveMapping") =>
         LET ids == request'["groups"]
         IN  IF AnyUnknownGroup(ids)
             THEN /\ response'["status"] = "kErrorInvalidGroupId"
                  /\ mapperCalls' = mapperCalls
             ELSE /\ response'["status"] = "0"
                  /\ Len(mapperCalls') = Len(mapperCalls) + Len(ids)
                  /\ \A i \in 1..Len(ids) :
                        LET call == mapperCalls'[Len(mapperCalls) + i]
                        IN  /\ call.op = "removeMappingForGroup"
                            /\ call.groups = <<ids[i]>>]_vars

\* a RemoveMapping request that named a known and then an unknown group was
\* refused, with a mapping added before it
C35_Witness ==
    /\ nreq = 2
    /\ request["type"] = "kMessageRemoveMapping"
    /\ request["groups"] = <<1, 3>>
    /\ response["status"] = "kErrorInvalidGroupId"
    /\ Len(mapperCalls) = 1

\* C37: an UpdateRoutine request for a routine the store holds leaves the
\* stored routine with the name, the code and the default parameters the
\* request carries, and with the old value of every key it does not carry.
C37_UpdateRoutineSetsKeys ==
    [][Processed("kMessageUpdateRoutine") =>
         LET id == request'["id"]
         IN  id \in DOMAIN routines =>
                /\ routines'[id].name =
                      IF "name" \in DOMAIN request' THEN request'["name"]
                      ELSE routines[id].name
                /\ routines'[id].code =
                      IF "code" \in DOMAIN request' THEN request'["code"]
                      ELSE routines[id].code
                /\ routines'[id].defaultParams =
                      IF "defaults" \in DOMAIN request' THEN request'["defaults"]
                      ELSE routines[id].defaultParams]_vars

\* C36: once stop() has been called on a started command server, stop()
\* returns, whenever it was called: also when it clears run before the server
\* thread has made its socket and set run.
C36_StopReturns == (stpc # "idle") ~> (stpc = "done")

\* C38: getInfoValue gives the value stored under the key, and a call for a
\* key that has no row ends in an error, not in a value.
C38_MissingKeyRaises ==
    lastInfo # NoInfo =>
        IF lastInfo.key \in DOMAIN infoTable
        THEN ~lastInfo.raised /\ lastInfo.value = infoTable[lastInfo.key]
        ELSE lastInfo.raised

\* C39: the cancellation is requested only while terminateCheckpointThread
\* holds the checkpoint lock and the checkpoint thread is outside the
\* critical section of commit(), and the thread never ends by cancellation
\* inside that critical section.
C39_NotCancelledInCheckpoint ==
    [][/\ (cancelRequested' /\ ~cancelRequested) =>
              /\ checkpointLock = "owner"
              /\ ckpc \notin {"checkpoint", "unlock"}
       /\ (ckpc' = "cancelled" /\ ckpc # "cancelled") =>
              /\ ckpc \notin {"checkpoint", "unlock"}
              /\ checkpointLock # "checkpoint"]_vars

\* the checkpoint thread was cancelled after it had made a checkpoint, with
\* terminateCheckpointThread waiting in join()
C39_Witness ==
    /\ ckpc = "cancelled"
    /\ ncheckpoints > 0
    /\ dpc = "join"
    /\ checkpointLock = "owner"

\* C40: a destruction of the DataStore that has begun goes on to the end of
\* close(), wherever the checkpoint thread is when it begins.
C40_DestroyTerminates == (dpc # "alive") ~> (dpc = "closed")

====
